---- MODULE Spec2Model ----
(***************************************************************************)
(* VaultBot playlist-session tracking: the tick buffer (BufferManager),    *)
(* the increment processor (PlaylistIncrementProcessor), the session       *)
(* tracker (PlaylistSessionTracker) and the abandonment tracker            *)
(* (SessionAbandonmentTracker).                                            *)
(*                                                                         *)
(* Conventions.                                                            *)
(*  - A Jellyfin user and the Discord user linked to it are one element of *)
(*    Users (the link table is one-to-one; unlinked users are skipped by   *)
(*    the code before any state is touched).                               *)
(*  - Python None is 0 for session_id and playlist_length (the code tests  *)
(*    both only by truthiness, and SQLite row ids start at 1), <<>> for    *)
(*    track_started_at, "none" for an item id, NoState for a missing       *)
(*    entry of the _states map.                                            *)
(*  - Wall-clock timestamps are kept relative to the current reading of    *)
(*    the clock: a stored timestamp t means "t seconds from now" (t <= 0), *)
(*    and Elapse(dt) moves the clock forward by shifting them.  The code   *)
(*    only ever subtracts a stored timestamp from datetime.now().          *)
(*  - last_seen of playlist_sessions, which the code only orders rows by   *)
(*    and compares with the look-back window of the reattachment, is the   *)
(*    rank of the row's last write, 0 once that write is out of the window.*)
(*  - Seconds are integers; the two float factors 0.67 and 0.90 are        *)
(*    compared in hundredths (100 * secs >= 67 * runtime).                 *)
(***************************************************************************)
EXTENDS Integers, Sequences, FiniteSets, TLC

VARIABLES
    buffer,                \* BufferManager._buffer: (user,item,hour) -> ticks
    consumed_ticks,        \* BufferManager._consumed_ticks
    last_known_tick,       \* BufferManager._last_known_tick: (user,item) -> ticks
    current_track,         \* BufferManager._current_track: user -> item
    hour,                  \* the wall-clock hour bucket (_current_hour())
    states,                \* PlaylistSessionTracker._states
    sessions,              \* table playlist_sessions (row id = position)
    file_events,           \* table playlist_file_events
    background_tasks,      \* PlaylistIncrementProcessor._background_tasks
    user_absence_count,    \* SessionAbandonmentTracker._user_absence_count
    user_pause_time,       \* SessionAbandonmentTracker._user_pause_time
    user_notified_paused,  \* SessionAbandonmentTracker._user_notified_paused
    user_notified_waiting, \* SessionAbandonmentTracker._user_notified_waiting
    session_snapshots,     \* SessionAbandonmentTracker._session_snapshots
    pipeline,              \* VaultPulse: where the running tick and flush stand
    events,                \* what the last operation handed to the dispatch sink
    last,                  \* history: the last operation, its inputs and pre-state
    hist                   \* history: counters the properties are stated over

vars == <<buffer, consumed_ticks, last_known_tick, current_track, hour, states,
          sessions, file_events, background_tasks, user_absence_count,
          user_pause_time, user_notified_paused, user_notified_waiting,
          session_snapshots, pipeline, events, last, hist>>

bufferVars == <<buffer, consumed_ticks, last_known_tick, current_track, hour>>
trackerVars == <<states, sessions, file_events, background_tasks>>
abandonVars == <<user_absence_count, user_pause_time, user_notified_paused,
                 user_notified_waiting, session_snapshots>>

-----------------------------------------------------------------------------
(* Generic helpers *)

Max(a, b) == IF a >= b THEN a ELSE b
Min(a, b) == IF a <= b THEN a ELSE b
MinOf(S) == CHOOSE x \in S : \A y \in S : x <= y
Get(f, k, d) == IF k \in DOMAIN f THEN f[k] ELSE d
Put(f, k, v) == [x \in (DOMAIN f) \cup {k} |-> IF x = k THEN v ELSE f[x]]
Drop(f, k) == [x \in (DOMAIN f) \ {k} |-> f[x]]
Empty == [x \in {} |-> 0]

\* The types of a sequence of events, and how many are of one type.
TypesOf(evs) == [i \in 1..Len(evs) |-> evs[i].type]
CountType(evs, t) == Cardinality({i \in 1..Len(evs) : evs[i].type = t})

RECURSIVE SumSeq(_)
SumSeq(s) == IF s = <<>> THEN 0 ELSE Head(s) + SumSeq(Tail(s))

-----------------------------------------------------------------------------
(* The world the tracker runs in: users, items, playlists, runtimes *)

Users == {"u1", "u2"}

\* The user the single-user specifications drive.
SoloUsers == {"u1"}

\* Items known to the media server.  "x" is in no live playlist.
Items == {"a", "b", "c", "x", "y"}

\* items.metadata_json RunTimeTicks / TICKS_PER_SECOND, in seconds.
TrackRuntime == [a |-> 300, b |-> 100, c |-> 20, x |-> 40, y |-> 4000]

\* user_playlists joined with playlist_items, without repeated tracks.  Row
\* ids grow with generated_at.  Playlists 1 and 2 share their first track;
\* playlist 3 is the only live one of u1 starting with "b"; playlist 4 has a
\* single track; playlist 5 has expired; playlist 6 is the only one of u2;
\* playlist 7 is a single track of more than an hour.
Playlists == <<
    [discord_id |-> "u1", is_expired |-> FALSE, items |-> <<"a", "c">>],
    [discord_id |-> "u1", is_expired |-> FALSE, items |-> <<"a", "b", "c">>],
    [discord_id |-> "u1", is_expired |-> FALSE, items |-> <<"b", "a", "c">>],
    [discord_id |-> "u1", is_expired |-> FALSE, items |-> <<"c">>],
    [discord_id |-> "u1", is_expired |-> TRUE, items |-> <<"b", "x">>],
    [discord_id |-> "u2", is_expired |-> FALSE, items |-> <<"c", "b">>],
    [discord_id |-> "u1", is_expired |-> FALSE, items |-> <<"y">>] >>

NoState == [tracked |-> FALSE]


-----------------------------------------------------------------------------
(* Constants of session_incrementor.py *)

ORDER_ADVANCE_MIN_SECS == 10
\* ORDER_ADVANCE_PERCENTAGE = 0.67, in hundredths
ORDER_ADVANCE_PERCENTAGE == 67
\* COMPLETION_PERCENTAGE = 0.90, in hundredths
COMPLETION_PERCENTAGE == 90
MAX_EVENT_DELAY_SECONDS == 300
SEED_TIME_GUARD_SECONDS == 30

\* datetime.now(): the clock reading all stored timestamps are relative to.
Now == 0

-----------------------------------------------------------------------------
(* playlist_tracking_db_helpers.py: lookups on the static tables *)

PlaylistIds == 1..Len(Playlists)

get_track_runtime(item_id) == TrackRuntime[item_id]

get_playlist_length(user_playlist_id) == Len(Playlists[user_playlist_id].items)

\* "none" when the playlist has no row at that order_index (0-based).
get_playlist_track_at_index(user_playlist_id, idx) ==
    IF idx + 1 \in 1..Len(Playlists[user_playlist_id].items)
    THEN Playlists[user_playlist_id].items[idx + 1]
    ELSE "none"

_get_all_playlist_items(user_playlist_id) ==
    {Playlists[user_playlist_id].items[i] :
        i \in 1..Len(Playlists[user_playlist_id].items)}

\* -1 when the item is not in the playlist (the code's None).
get_order_index_for_item(user_playlist_id, item_id) ==
    LET hits == {i \in 1..Len(Playlists[user_playlist_id].items) :
                    Playlists[user_playlist_id].items[i] = item_id}
    IN  IF hits = {} THEN -1 ELSE MinOf(hits) - 1

\* Mutant: the expired playlists are candidates too.
find_candidate_playlists_with_expired(discord_id, first_item_id) ==
    LET desc == [i \in PlaylistIds |-> Len(Playlists) + 1 - i]
        match(p) == /\ Playlists[p].discord_id = discord_id
                    /\ get_playlist_track_at_index(p, 0) = first_item_id
    IN  SelectSeq(desc, match)

\* ORDER BY generated_at DESC: the most recently generated playlist first.
find_candidate_playlists_by_first_item(discord_id, first_item_id) ==
    LET desc == [i \in PlaylistIds |-> Len(Playlists) + 1 - i]
        match(p) == /\ Playlists[p].discord_id = discord_id
                    /\ ~Playlists[p].is_expired
                    /\ get_playlist_track_at_index(p, 0) = first_item_id
    IN  SelectSeq(desc, match)

(* playlist_tracking_db_helpers.py: writes on playlist_sessions and
   playlist_file_events.  last_seen orders the rows by their last write: it
   is the rank of that write among the writes of the table, and 0 once the
   write is older than the look-back window of the reattachment. *)

\* CURRENT_TIMESTAMP of a write on playlist_sessions.
CurrentTimestamp(sess) ==
    1 + (IF sess = <<>> THEN 0
         ELSE CHOOSE m \in {sess[i].last_seen : i \in 1..Len(sess)} :
                 \A i \in 1..Len(sess) : sess[i].last_seen <= m)

OpenSessions(sess, discord_id, user_playlist_id) ==
    {i \in 1..Len(sess) : /\ sess[i].discord_id = discord_id
                          /\ sess[i].user_playlist_id = user_playlist_id
                          /\ ~sess[i].is_complete}

\* Mutant: a row is inserted whether or not the user has an open session.
upsert_session_id_insert(sess, discord_id, user_playlist_id) == Len(sess) + 1

\* The id upsert_playlist_session returns.
upsert_session_id(sess, discord_id, user_playlist_id) ==
    IF OpenSessions(sess, discord_id, user_playlist_id) # {}
    THEN MinOf(OpenSessions(sess, discord_id, user_playlist_id))
    ELSE Len(sess) + 1

\* The table upsert_playlist_session leaves.
upsert_playlist_session(sess, discord_id, user_playlist_id, current_index, is_confirmed) ==
    LET sid == upsert_session_id(sess, discord_id, user_playlist_id)
    IN  IF sid \in 1..Len(sess)
        THEN [sess EXCEPT ![sid].last_seen = CurrentTimestamp(sess),
                          ![sid].current_index = current_index,
                          ![sid].is_confirmed = is_confirmed]
        ELSE Append(sess, [discord_id |-> discord_id,
                           user_playlist_id |-> user_playlist_id,
                           current_index |-> current_index,
                           is_confirmed |-> is_confirmed,
                           is_complete |-> FALSE,
                           last_seen |-> CurrentTimestamp(sess)])

record_file_completion(fe, playlist_session_id, item_id, order_index, listen_duration) ==
    Append(fe, [playlist_session_id |-> playlist_session_id,
                item_id |-> item_id,
                order_index |-> order_index,
                listen_duration_seconds |-> listen_duration])

mark_session_complete(sess, playlist_session_id) ==
    IF playlist_session_id \in 1..Len(sess) /\ ~sess[playlist_session_id].is_complete
    THEN [sess EXCEPT ![playlist_session_id].is_complete = TRUE,
                      ![playlist_session_id].last_seen = CurrentTimestamp(sess)]
    ELSE sess

calculate_session_listen_time(fe, playlist_session_id) ==
    LET mine == SelectSeq(fe, LAMBDA r : r.playlist_session_id = playlist_session_id)
    IN  SumSeq([i \in 1..Len(mine) |-> mine[i].listen_duration_seconds])

-----------------------------------------------------------------------------
(* session_event_dispatcher.py: the records handed to the dispatch sink.
   Titles and display names are looked up, never decided on, and are left
   out. *)

StartEvent(discord_id, state, item_id) ==
    [type |-> "Start", user |-> discord_id,
     user_playlist_id |-> state.user_playlist_id,
     current_index |-> 0, current_item_id |-> item_id,
     session_id |-> state.session_id]

AdvanceEvent(discord_id, state, prev_index, prev_item, prev_secs, new_item) ==
    [type |-> "Advance", user |-> discord_id,
     user_playlist_id |-> state.user_playlist_id,
     from_index |-> prev_index, to_index |-> state.current_index,
     from_item_id |-> prev_item, to_item_id |-> new_item,
     seconds_on_from |-> prev_secs, session_id |-> state.session_id]

JumpEvent(discord_id, state, prev_index, prev_item, prev_secs, new_item) ==
    [type |-> "Jump", user |-> discord_id,
     user_playlist_id |-> state.user_playlist_id,
     from_index |-> prev_index, to_index |-> state.current_index,
     from_item_id |-> prev_item, to_item_id |-> new_item,
     seconds_on_from |-> prev_secs, session_id |-> state.session_id]

SwitchAwayEvent_fresh(discord_id, state, new_item_id) ==
    [type |-> "SwitchAway", user |-> discord_id,
     user_playlist_id |-> state.user_playlist_id,
     from_index |-> state.current_index,
     from_item_id |-> state.current_item_id,
     seconds_on_from |-> 0,
     switched_to_item_id |-> new_item_id, session_id |-> state.session_id]

SwitchAwayEvent(discord_id, state, new_item_id) ==
    [type |-> "SwitchAway", user |-> discord_id,
     user_playlist_id |-> state.user_playlist_id,
     from_index |-> state.current_index,
     from_item_id |-> state.current_item_id,
     seconds_on_from |-> state.seconds_accum,
     switched_to_item_id |-> new_item_id, session_id |-> state.session_id]

CompleteEvent(discord_id, state, total_tracks, fe) ==
    [type |-> "Complete", user |-> discord_id,
     user_playlist_id |-> state.user_playlist_id,
     session_id |-> state.session_id,
     total_tracks |-> total_tracks,
     completed_tracks |-> state.current_index + 1,
     listen_duration |-> calculate_session_listen_time(fe, state.session_id)]

\* The sink and the enrichment lookups of an emission (w.dispatch): the sink
\* VaultPulse passes (bot.dispatch) with lookups that succeed, no sink at
\* all, a lookup that raises, a sink that raises.
DispatchModes == {"working", "none", "lookup_raises", "sink_raises"}

\* The body of the try block of an emit_* method: the enrichment lookups,
\* then the call of the sink; w.raised tells that an exception left it.
Dispatch(w, ev) ==
    IF w.dispatch = "working"
    THEN [w EXCEPT !.events = Append(@, ev)]
    ELSE [w EXCEPT !.raised = TRUE]

\* The emission with the handler taken away: the exception leaves the method.
Emit_uncaught(w, ev) ==
    IF w.dispatch = "none" THEN w ELSE Dispatch(w, ev)

\* History: the users whose last Start, SwitchAway, Abandoned or Complete
\* event, after the events evs, is not a Start.
RECURSIVE EndedAfter(_, _)
EndedAfter(evs, ended) ==
    IF evs = <<>>
    THEN ended
    ELSE EndedAfter(Tail(evs),
             IF Head(evs).type \in {"SwitchAway", "Abandoned", "Complete"}
             THEN ended \cup {Head(evs).user}
             ELSE IF Head(evs).type = "Start"
             THEN ended \ {Head(evs).user}
             ELSE ended)

\* emit_*: nothing without a sink; an exception of the try block is logged
\* and goes no further.
Emit(w, ev) ==
    IF w.dispatch = "none"
    THEN w
    ELSE [Dispatch(w, ev) EXCEPT !.raised = FALSE]

-----------------------------------------------------------------------------
(* session_incrementor.py: PlaylistIncrementProcessor.
   Every handler takes the world w = [states, sessions, file_events,
   background_tasks, events] and returns the world it leaves; the state it
   returns to PlaylistSessionTracker.process_buffer_deltas is w.states[d]
   (NoState for None, which the tracker pops). *)

SetState(w, discord_id, state) == [w EXCEPT !.states[discord_id] = state]

\* Mutant: the 95% the comments of session_abandon.py speak of.
_calculate_completion_threshold_95(item_id) ==
    get_track_runtime(item_id) * 95

_calculate_completion_threshold(item_id) ==
    get_track_runtime(item_id) * COMPLETION_PERCENTAGE

_calculate_advance_threshold(item_id) ==
    Max(ORDER_ADVANCE_MIN_SECS * 100, get_track_runtime(item_id) * ORDER_ADVANCE_PERCENTAGE)

\* (now - state.track_started_at).total_seconds() if state.track_started_at else 0
TimeSpent(state) ==
    IF state.track_started_at = <<>> THEN 0 ELSE Now - state.track_started_at[1]

_handle_session_seed(w, discord_id, item_id, initial_secs) ==
    LET candidates == find_candidate_playlists_by_first_item(discord_id, item_id)
        chosen == candidates[1]
        auto_confirm == Len(candidates) = 1
        credited == IF initial_secs <= SEED_TIME_GUARD_SECONDS THEN initial_secs ELSE 0
        sid == IF auto_confirm THEN upsert_session_id(w.sessions, discord_id, chosen) ELSE 0
        state == [tracked |-> TRUE,
                  session_id |-> sid,
                  user_playlist_id |-> chosen,
                  current_index |-> 0,
                  is_confirmed |-> auto_confirm,
                  current_item_id |-> item_id,
                  seconds_accum |-> credited,
                  playlist_length |-> 0,
                  second_expected |-> get_playlist_track_at_index(chosen, 1),
                  track_started_at |-> <<Now>>]
        w1 == IF auto_confirm
              THEN [w EXCEPT !.sessions =
                       upsert_playlist_session(@, discord_id, chosen, 0, TRUE)]
              ELSE w
    IN  IF candidates = <<>>
        THEN SetState(w, discord_id, NoState)
        ELSE Emit(SetState(w1, discord_id, state), StartEvent(discord_id, state, item_id))

_emit_completion_event(w, discord_id, state, total_tracks) ==
    Emit(w, CompleteEvent(discord_id, state, total_tracks, w.file_events))

\* Mutant: the deferred completion waits for the whole remaining runtime.
CompletionDelay_uncapped(state) ==
    Max(0, get_track_runtime(state.current_item_id) - state.seconds_accum)

\* delay_seconds of _finalize_if_complete, once the threshold is reached.
CompletionDelay(state) ==
    Min(Max(0, get_track_runtime(state.current_item_id) - state.seconds_accum),
        MAX_EVENT_DELAY_SECONDS)

_finalize_if_complete(w, discord_id, state, total_tracks) ==
    LET track_runtime == get_track_runtime(state.current_item_id)
        delay_seconds == CompletionDelay(state)
        w1 == [w EXCEPT
                 !.file_events = record_file_completion(@, state.session_id,
                                    state.current_item_id, state.current_index,
                                    track_runtime),
                 !.sessions = mark_session_complete(@, state.session_id)]
        task == [discord_id |-> discord_id, state |-> state,
                 total_tracks |-> total_tracks, delay |-> delay_seconds]
    IN  IF /\ state.is_confirmed
           /\ state.current_index >= total_tracks - 1
           /\ state.seconds_accum * 100 >= _calculate_completion_threshold(state.current_item_id)
           /\ state.session_id # 0
        THEN IF delay_seconds > 0
             THEN [w1 EXCEPT !.background_tasks = Append(@, task)]
             ELSE _emit_completion_event(w1, discord_id, state, total_tracks)
        ELSE w

_handle_same_item_increment(w, discord_id, state, secs) ==
    LET s1 == [state EXCEPT
                 !.seconds_accum = @ + secs,
                 !.playlist_length =
                     IF @ = 0 THEN get_playlist_length(state.user_playlist_id) ELSE @]
    IN  IF /\ s1.is_confirmed
           /\ s1.playlist_length # 0
           /\ s1.current_index >= s1.playlist_length - 1
           /\ s1.seconds_accum * 100 >= _calculate_completion_threshold(s1.current_item_id)
        THEN SetState(_finalize_if_complete(w, discord_id, s1, s1.playlist_length),
                      discord_id, NoState)
        ELSE SetState(w, discord_id, s1)

\* Mutant: a skip records the accumulated seconds, whatever the wall clock.
TimeToRecord_accum_only(state, is_completion) ==
    IF is_completion
    THEN get_track_runtime(state.current_item_id)
    ELSE Max(0, state.seconds_accum)

\* time_to_record of _process_track_completion.
TimeToRecord(state, is_completion) ==
    IF is_completion
    THEN get_track_runtime(state.current_item_id)
    ELSE Max(0, IF state.track_started_at # <<>>
                THEN Max(state.seconds_accum, TimeSpent(state))
                ELSE state.seconds_accum)

\* Mutant: is_confirmed is assigned was_unconfirmed_first.
ConfirmedAfterMove_assigned(state) == state.current_index = 0 /\ ~state.is_confirmed

\* is_confirmed as _process_track_completion assigns it.
ConfirmedAfterMove(state) ==
    LET was_unconfirmed_first == state.current_index = 0 /\ ~state.is_confirmed
    IN  state.is_confirmed \/ was_unconfirmed_first

_process_track_completion(w, discord_id, state, next_idx, item_id, is_completion) ==
    LET was_unconfirmed_first == state.current_index = 0 /\ ~state.is_confirmed
        confirmed == ConfirmedAfterMove(state)
        length == IF state.playlist_length = 0
                  THEN get_playlist_length(state.user_playlist_id)
                  ELSE state.playlist_length
        sid == upsert_session_id(w.sessions, discord_id, state.user_playlist_id)
        sess1 == upsert_playlist_session(w.sessions, discord_id,
                     state.user_playlist_id, state.current_index, confirmed)
        time_to_record == TimeToRecord(state, is_completion)
        fe1 == IF time_to_record > 0
               THEN record_file_completion(w.file_events, sid,
                        state.current_item_id, state.current_index, time_to_record)
               ELSE w.file_events
        s1 == [state EXCEPT !.is_confirmed = confirmed,
                            !.playlist_length = length,
                            !.session_id = sid,
                            !.current_index = next_idx,
                            !.current_item_id = item_id,
                            !.seconds_accum = 0,
                            !.track_started_at = <<Now>>]
        sess2 == upsert_playlist_session(sess1, discord_id,
                     s1.user_playlist_id, s1.current_index, s1.is_confirmed)
        w1 == [SetState(w, discord_id, s1) EXCEPT !.sessions = sess2,
                                                  !.file_events = fe1]
    IN  IF is_completion
        THEN Emit(w1, AdvanceEvent(discord_id, s1, state.current_index,
                          state.current_item_id, time_to_record, item_id))
        ELSE Emit(w1, JumpEvent(discord_id, s1, state.current_index,
                          state.current_item_id, time_to_record, item_id))

\* Mutant: the accumulated seconds decide alone, without the timestamp check.
IsCompletion_AccumOnly(state) ==
    state.seconds_accum * 100 >= _calculate_advance_threshold(state.current_item_id)

\* is_completion as _handle_sequential_advance decides it.
IsCompletion(state) ==
    \/ state.seconds_accum * 100 >= _calculate_advance_threshold(state.current_item_id)
    \/ TimeSpent(state) * 100 >= _calculate_advance_threshold(state.current_item_id)

_handle_sequential_advance(w, discord_id, item_id, state, next_idx) ==
    _process_track_completion(w, discord_id, state, next_idx, item_id,
                              IsCompletion(state))

_process_playlist_jump(w, discord_id, state, new_idx, item_id, new_track_secs) ==
    LET length == IF state.playlist_length = 0
                  THEN get_playlist_length(state.user_playlist_id)
                  ELSE state.playlist_length
        sid == upsert_session_id(w.sessions, discord_id, state.user_playlist_id)
        sess1 == upsert_playlist_session(w.sessions, discord_id,
                     state.user_playlist_id, new_idx, state.is_confirmed)
        s1 == [state EXCEPT !.playlist_length = length,
                            !.session_id = sid,
                            !.current_index = new_idx,
                            !.current_item_id = item_id,
                            !.seconds_accum = new_track_secs,
                            !.track_started_at = <<Now>>]
        w1 == [SetState(w, discord_id, s1) EXCEPT !.sessions = sess1]
    IN  \* the code calls emit_track_advance here (line 350)
        Emit(w1, AdvanceEvent(discord_id, s1, state.current_index,
                     state.current_item_id, state.seconds_accum, item_id))

_handle_non_sequential_jump_announced(w, discord_id, item_id, secs, state) ==
    LET new_idx == get_order_index_for_item(state.user_playlist_id, item_id)
        credited_jump_time == IF secs <= SEED_TIME_GUARD_SECONDS THEN secs ELSE 0
    IN  IF new_idx = -1 \/ ~(state.is_confirmed \/ state.current_index > 0)
        THEN SetState(Emit(w, SwitchAwayEvent(discord_id, state, item_id)),
                      discord_id, NoState)
        ELSE _process_playlist_jump(w, discord_id, state, new_idx, item_id,
                                    credited_jump_time)

\* Mutant: the whole delta is credited to the track jumped to.
_handle_non_sequential_jump_uncapped(w, discord_id, item_id, secs, state) ==
    LET new_idx == get_order_index_for_item(state.user_playlist_id, item_id)
    IN  IF state.is_confirmed \/ state.current_index > 0
        THEN IF new_idx = -1
             THEN SetState(Emit(w, SwitchAwayEvent(discord_id, state, item_id)),
                           discord_id, NoState)
             ELSE _process_playlist_jump(w, discord_id, state, new_idx, item_id, secs)
        ELSE SetState(w, discord_id, NoState)

_handle_non_sequential_jump(w, discord_id, item_id, secs, state) ==
    LET new_idx == get_order_index_for_item(state.user_playlist_id, item_id)
        credited_jump_time == IF secs <= SEED_TIME_GUARD_SECONDS THEN secs ELSE 0
    IN  IF state.is_confirmed \/ state.current_index > 0
        THEN IF new_idx = -1
             THEN SetState(Emit(w, SwitchAwayEvent(discord_id, state, item_id)),
                           discord_id, NoState)
             ELSE _process_playlist_jump(w, discord_id, state, new_idx, item_id,
                                         credited_jump_time)
        ELSE SetState(w, discord_id, NoState)

_handle_item_change(w, discord_id, item_id, secs, state) ==
    LET next_idx == state.current_index + 1
        expected_next == get_playlist_track_at_index(state.user_playlist_id, next_idx)
    IN  IF expected_next # "none" /\ expected_next = item_id
        THEN _handle_sequential_advance(w, discord_id, item_id, state, next_idx)
        ELSE _handle_non_sequential_jump(w, discord_id, item_id, secs, state)

_handle_existing_session(w, discord_id, item_id, secs, state) ==
    IF state.is_confirmed /\ item_id \notin _get_all_playlist_items(state.user_playlist_id)
    THEN SetState(Emit(w, SwitchAwayEvent(discord_id, state, item_id)),
                  discord_id, NoState)
    ELSE IF state.current_item_id = item_id
    THEN _handle_same_item_increment(w, discord_id, state, secs)
    ELSE _handle_item_change(w, discord_id, item_id, secs, state)

process_increment(w, discord_id, item_id, secs) ==
    IF w.states[discord_id] = NoState
    THEN _handle_session_seed(w, discord_id, item_id, secs)
    ELSE _handle_existing_session(w, discord_id, item_id, secs, w.states[discord_id])

-----------------------------------------------------------------------------
(* playlist_tracking.py: PlaylistSessionTracker *)

\* buffer_deltas is a sequence of <<user, item, secs>>, processed in order.
RECURSIVE process_buffer_deltas(_, _)
process_buffer_deltas(w, buffer_deltas) ==
    IF buffer_deltas = <<>>
    THEN w
    ELSE process_buffer_deltas(
             process_increment(w, Head(buffer_deltas)[1], Head(buffer_deltas)[2],
                               Head(buffer_deltas)[3]),
             Tail(buffer_deltas))

-----------------------------------------------------------------------------
(* The same handlers when a call into the persistence layer raises.
   fault names the helper whose next call raises ("none": nothing fails).
   A handler gives [w, raised]: the world at the raise, or the world it
   returns.  A SessionState is one object: what a handler has assigned to the
   state it was handed is in the state map when the call raises, while the
   state _handle_session_seed builds is not in the map before it returns.
   The emit_* methods catch what their lookups raise. *)

DbCalls == {"find_candidate_playlists_by_first_item", "_get_all_playlist_items",
            "get_playlist_length", "get_track_runtime",
            "get_playlist_track_at_index", "get_order_index_for_item",
            "upsert_playlist_session", "record_file_completion",
            "mark_session_complete"}

Raised(w) == [w |-> w, raised |-> TRUE]
Returned(w) == [w |-> w, raised |-> FALSE]

_handle_session_seed_failing(w, discord_id, item_id, initial_secs, fault) ==
    LET candidates == find_candidate_playlists_by_first_item(discord_id, item_id)
    IN  IF fault = "find_candidate_playlists_by_first_item"
        THEN Raised(w)
        ELSE IF Len(candidates) = 1 /\ fault = "upsert_playlist_session"
        THEN Raised(w)
        ELSE Returned(_handle_session_seed(w, discord_id, item_id, initial_secs))

\* Called by _handle_same_item_increment once the completion threshold of the
\* final track is reached (w holds the state as mutated so far).
_finalize_if_complete_failing(w, discord_id, state, total_tracks, fault) ==
    LET track_runtime == get_track_runtime(state.current_item_id)
        recorded == [w EXCEPT
                       !.file_events = record_file_completion(@, state.session_id,
                                          state.current_item_id, state.current_index,
                                          track_runtime)]
    IN  IF state.session_id # 0 /\ fault = "record_file_completion"
        THEN Raised(w)
        ELSE IF state.session_id # 0 /\ fault = "mark_session_complete"
        THEN Raised(recorded)
        ELSE Returned(_finalize_if_complete(w, discord_id, state, total_tracks))

_handle_same_item_increment_failing(w, discord_id, state, secs, fault) ==
    LET s0 == [state EXCEPT !.seconds_accum = @ + secs]
        s1 == [s0 EXCEPT
                 !.playlist_length =
                     IF @ = 0 THEN get_playlist_length(state.user_playlist_id) ELSE @]
        on_final_track == /\ s1.is_confirmed
                          /\ s1.playlist_length # 0
                          /\ s1.current_index >= s1.playlist_length - 1
        finalized == _finalize_if_complete_failing(SetState(w, discord_id, s1),
                         discord_id, s1, s1.playlist_length, fault)
    IN  IF state.playlist_length = 0 /\ fault = "get_playlist_length"
        THEN Raised(SetState(w, discord_id, s0))
        ELSE IF on_final_track /\ fault = "get_track_runtime"
        THEN Raised(SetState(w, discord_id, s1))
        ELSE IF /\ on_final_track
                /\ s1.seconds_accum * 100 >=
                       _calculate_completion_threshold(s1.current_item_id)
                /\ finalized.raised
        THEN finalized
        ELSE Returned(_handle_same_item_increment(w, discord_id, state, secs))

_process_track_completion_failing(w, discord_id, state, next_idx, item_id, is_completion, fault) ==
    LET was_unconfirmed_first == state.current_index = 0 /\ ~state.is_confirmed
        s1 == [state EXCEPT !.is_confirmed = @ \/ was_unconfirmed_first]
        s2 == [s1 EXCEPT
                 !.playlist_length =
                     IF @ = 0 THEN get_playlist_length(state.user_playlist_id) ELSE @]
        s3 == [s2 EXCEPT
                 !.session_id = upsert_session_id(w.sessions, discord_id,
                                                  state.user_playlist_id)]
        sess1 == upsert_playlist_session(w.sessions, discord_id,
                     state.user_playlist_id, state.current_index, s1.is_confirmed)
        time_to_record ==
            IF is_completion
            THEN get_track_runtime(state.current_item_id)
            ELSE Max(0, IF state.track_started_at # <<>>
                        THEN Max(state.seconds_accum, TimeSpent(state))
                        ELSE state.seconds_accum)
    IN  IF state.playlist_length = 0 /\ fault = "get_playlist_length"
        THEN Raised(SetState(w, discord_id, s1))
        ELSE IF fault = "upsert_playlist_session"
        THEN Raised(SetState(w, discord_id, s2))
        ELSE IF \/ is_completion /\ fault = "get_track_runtime"
                \/ time_to_record > 0 /\ fault = "record_file_completion"
        THEN Raised([SetState(w, discord_id, s3) EXCEPT !.sessions = sess1])
        ELSE Returned(_process_track_completion(w, discord_id, state, next_idx,
                                                item_id, is_completion))

_handle_sequential_advance_failing(w, discord_id, item_id, state, next_idx, fault) ==
    IF fault = "get_track_runtime"
    THEN Raised(w)
    ELSE _process_track_completion_failing(w, discord_id, state, next_idx, item_id,
                                           IsCompletion(state), fault)

_process_playlist_jump_failing(w, discord_id, state, new_idx, item_id, new_track_secs, fault) ==
    LET s1 == [state EXCEPT
                 !.playlist_length =
                     IF @ = 0 THEN get_playlist_length(state.user_playlist_id) ELSE @]
    IN  IF state.playlist_length = 0 /\ fault = "get_playlist_length"
        THEN Raised(w)
        ELSE IF fault = "upsert_playlist_session"
        THEN Raised(SetState(w, discord_id, s1))
        ELSE Returned(_process_playlist_jump(w, discord_id, state, new_idx, item_id,
                                             new_track_secs))

_handle_non_sequential_jump_failing(w, discord_id, item_id, secs, state, fault) ==
    LET new_idx == get_order_index_for_item(state.user_playlist_id, item_id)
        credited_jump_time == IF secs <= SEED_TIME_GUARD_SECONDS THEN secs ELSE 0
    IN  IF ~(state.is_confirmed \/ state.current_index > 0)
        THEN Returned(_handle_non_sequential_jump(w, discord_id, item_id, secs, state))
        ELSE IF fault = "get_order_index_for_item"
        THEN Raised(w)
        ELSE IF new_idx = -1
        THEN Returned(_handle_non_sequential_jump(w, discord_id, item_id, secs, state))
        ELSE _process_playlist_jump_failing(w, discord_id, state, new_idx, item_id,
                                            credited_jump_time, fault)

_handle_item_change_failing(w, discord_id, item_id, secs, state, fault) ==
    LET next_idx == state.current_index + 1
        expected_next == get_playlist_track_at_index(state.user_playlist_id, next_idx)
    IN  IF fault = "get_playlist_track_at_index"
        THEN Raised(w)
        ELSE IF expected_next # "none" /\ expected_next = item_id
        THEN _handle_sequential_advance_failing(w, discord_id, item_id, state,
                                                next_idx, fault)
        ELSE _handle_non_sequential_jump_failing(w, discord_id, item_id, secs,
                                                 state, fault)

_handle_existing_session_failing(w, discord_id, item_id, secs, state, fault) ==
    IF state.is_confirmed /\ fault = "_get_all_playlist_items"
    THEN Raised(w)
    ELSE IF state.is_confirmed
            /\ item_id \notin _get_all_playlist_items(state.user_playlist_id)
    THEN Returned(_handle_existing_session(w, discord_id, item_id, secs, state))
    ELSE IF state.current_item_id = item_id
    THEN _handle_same_item_increment_failing(w, discord_id, state, secs, fault)
    ELSE _handle_item_change_failing(w, discord_id, item_id, secs, state, fault)

process_increment_failing(w, discord_id, item_id, secs, fault) ==
    IF w.states[discord_id] = NoState
    THEN _handle_session_seed_failing(w, discord_id, item_id, secs, fault)
    ELSE _handle_existing_session_failing(w, discord_id, item_id, secs,
                                          w.states[discord_id], fault)

\* process_buffer_deltas when the fault hits the processing of the delta at
\* position failing (0: of none).  The try statement encloses the loop: what
\* an increment raises is logged by the except clause, after the loop.
RECURSIVE process_buffer_deltas_failing(_, _, _, _)
process_buffer_deltas_failing(w, buffer_deltas, fault, failing) ==
    IF buffer_deltas = <<>>
    THEN w
    ELSE LET d == Head(buffer_deltas)
             r == process_increment_failing(w, d[1], d[2], d[3],
                      IF failing = 1 THEN fault ELSE "none")
         IN  IF r.raised
             THEN r.w
             ELSE process_buffer_deltas_failing(r.w, Tail(buffer_deltas), fault,
                                                failing - 1)

\* The position of the delta whose processing raises (0: none does).
RECURSIVE RaisedAt(_, _, _, _)
RaisedAt(w, buffer_deltas, fault, failing) ==
    IF buffer_deltas = <<>>
    THEN 0
    ELSE LET d == Head(buffer_deltas)
             r == process_increment_failing(w, d[1], d[2], d[3],
                      IF failing = 1 THEN fault ELSE "none")
             rest == RaisedAt(r.w, Tail(buffer_deltas), fault, failing - 1)
         IN  IF r.raised THEN 1
             ELSE IF rest = 0 THEN 0 ELSE rest + 1

\* The wall clock moves on by dt seconds: stored timestamps fall behind and
\* the sleeps of the deferred completions run down.
ElapseState(state, dt) ==
    IF state = NoState \/ state.track_started_at = <<>>
    THEN state
    ELSE [state EXCEPT !.track_started_at = <<@[1] - dt>>]

ElapseTasks(tasks, dt) ==
    [i \in 1..Len(tasks) |-> [tasks[i] EXCEPT !.delay = Max(0, @ - dt)]]

World ==
    [states |-> states, sessions |-> sessions, file_events |-> file_events,
     background_tasks |-> background_tasks, events |-> <<>>,
     dispatch |-> "working", raised |-> FALSE]

ElapseWorld(w, dt) ==
    [w EXCEPT !.states = [u \in Users |-> ElapseState(w.states[u], dt)],
              !.background_tasks = ElapseTasks(@, dt)]

-----------------------------------------------------------------------------
(* vaultpulse/buffer.py: BufferManager.
   Positions and buckets are in ticks.  The handlers take the buffer state
   b = [buffer, consumed_ticks, last_known_tick, current_track] and return
   the one they leave; h is the hour bucket _current_hour() returns. *)

TICKS_PER_SECOND == 10000000
MAX_JUMP_BACK == 5 * TICKS_PER_SECOND
INIT_BUFFER == 15 * TICKS_PER_SECOND
\* the default of _safe_delta's max_allowed
MAX_ALLOWED_DELTA == 60 * TICKS_PER_SECOND
\* max_gap of _finalize_track_on_change
MAX_GAP == 30 * TICKS_PER_SECOND

_get_track_runtime_ticks(item_id) == get_track_runtime(item_id) * TICKS_PER_SECOND

\* Mutant: a backward jump is never taken for a restart.
_detect_restart_never(current_ticks, last_ticks) == last_ticks

_detect_restart(current_ticks, last_ticks) ==
    IF current_ticks < last_ticks - MAX_JUMP_BACK THEN 0 ELSE last_ticks

\* Mutant: the delta without its upper limit.
_safe_delta_uncapped(current, previous) == Max(0, current - previous)

_safe_delta(current, previous) ==
    LET delta == current - previous
    IN  IF 0 <= delta /\ delta <= MAX_ALLOWED_DELTA THEN delta ELSE 0

\* self._buffer[track_key] += ticks on a defaultdict(int)
AddTicks(buf, track_key, ticks) == Put(buf, track_key, Get(buf, track_key, 0) + ticks)

\* Mutant: the first position is credited whatever it is.
_handle_initial_unguarded(b, user_item_key, track_key, ticks) ==
    [b EXCEPT !.last_known_tick = Put(@, user_item_key, ticks),
              !.buffer = AddTicks(@, track_key, ticks)]

_handle_initial(b, user_item_key, track_key, ticks) ==
    LET b1 == [b EXCEPT !.last_known_tick = Put(@, user_item_key, ticks)]
    IN  IF ticks <= INIT_BUFFER
        THEN [b1 EXCEPT !.buffer = AddTicks(@, track_key, ticks)]
        ELSE b1

_handle_subsequent(b, user_item_key, track_key, ticks) ==
    LET last_ticks == _detect_restart(ticks, b.last_known_tick[user_item_key])
        delta == _safe_delta(ticks, last_ticks)
    IN  IF delta <= 0
        THEN b
        ELSE [b EXCEPT !.last_known_tick = Put(@, user_item_key, ticks),
                       !.buffer = AddTicks(@, track_key, delta)]

\* Mutant: the gap without its 30 s cap.
GapTicks_uncapped(b, user_id, old_item_id) ==
    IF <<user_id, old_item_id>> \notin DOMAIN b.last_known_tick
    THEN 0
    ELSE Max(0, _get_track_runtime_ticks(old_item_id)
                    - b.last_known_tick[<<user_id, old_item_id>>])

\* Mutant: the gap is filled with 30 s wherever the last known position is.
GapTicks_flat(b, user_id, old_item_id) ==
    IF <<user_id, old_item_id>> \notin DOMAIN b.last_known_tick
    THEN 0
    ELSE MAX_GAP

\* The ticks _finalize_track_on_change adds to the track being left.
GapTicks(b, user_id, old_item_id) ==
    IF <<user_id, old_item_id>> \notin DOMAIN b.last_known_tick
    THEN 0
    ELSE Min(Max(0, _get_track_runtime_ticks(old_item_id)
                        - b.last_known_tick[<<user_id, old_item_id>>]),
             MAX_GAP)

_finalize_track_on_change(b, user_id, old_item_id, h) ==
    IF GapTicks(b, user_id, old_item_id) > 0
    THEN [b EXCEPT !.buffer = AddTicks(@, <<user_id, old_item_id, h>>,
                                       GapTicks(b, user_id, old_item_id))]
    ELSE b

\* update(session) for a session with a UserId, a NowPlayingItem and a
\* PositionTicks.
update(b, user_id, item_id, ticks, h) ==
    LET old_item_id == Get(b.current_track, user_id, "none")
        b1 == IF old_item_id # "none" /\ old_item_id # item_id
              THEN _finalize_track_on_change(b, user_id, old_item_id, h)
              ELSE b
        b2 == [b1 EXCEPT !.current_track = Put(@, user_id, item_id)]
    IN  IF <<user_id, item_id>> \notin DOMAIN b2.last_known_tick
        THEN _handle_initial(b2, <<user_id, item_id>>, <<user_id, item_id, h>>, ticks)
        ELSE _handle_subsequent(b2, <<user_id, item_id>>, <<user_id, item_id, h>>, ticks)

\* consume_recent_deltas: the bucket's ticks not yet surfaced, and whether the
\* call surfaces them.
NewTicks(b, track_key) == b.buffer[track_key] - Get(b.consumed_ticks, track_key, 0)

Surfaces(b, track_key) ==
    /\ track_key[2] = Get(b.current_track, track_key[1], "none")
    /\ NewTicks(b, track_key) > 0
    /\ NewTicks(b, track_key) \div TICKS_PER_SECOND > 0

\* The buckets in the order the dict is walked.  The order only matters
\* between the buckets that surface; for one user these are the hours of the
\* current item, inserted in the order of the hours.
RECURSIVE KeysInOrder(_)
KeysInOrder(S) ==
    IF S = {}
    THEN <<>>
    ELSE LET k == CHOOSE x \in S : \A y \in S : x[3] <= y[3]
         IN  <<k>> \o KeysInOrder(S \ {k})

\* The list consume_recent_deltas returns.
consume_deltas(b) ==
    LET keys == KeysInOrder({k \in DOMAIN b.buffer : Surfaces(b, k)})
    IN  [n \in 1..Len(keys) |->
            <<keys[n][1], keys[n][2], NewTicks(b, keys[n]) \div TICKS_PER_SECOND>>]

\* Mutant: the watermark is not moved.
consume_marks_none(b) == b.consumed_ticks

\* _consumed_ticks as consume_recent_deltas leaves it.
consume_marks(b) ==
    [k \in (DOMAIN b.consumed_ticks) \cup {x \in DOMAIN b.buffer : Surfaces(b, x)} |->
        IF k \in DOMAIN b.buffer /\ Surfaces(b, k)
        THEN b.buffer[k]
        ELSE b.consumed_ticks[k]]

BufferState ==
    [buffer |-> buffer, consumed_ticks |-> consumed_ticks,
     last_known_tick |-> last_known_tick, current_track |-> current_track]

-----------------------------------------------------------------------------
(* session_abandon.py: SessionAbandonmentTracker, and
   PlaylistSessionTracker.check_for_abandoned_sessions that drives it.
   The handlers take t, the world of the increment processor extended by
   the tracker's maps (user_absence_count, user_pause_time,
   user_notified_paused, user_notified_waiting, session_snapshots), and
   return the one they leave.  user_pause_time holds timestamps relative to
   the current reading of the clock, as track_started_at does. *)

pause_threshold == 20
waiting_threshold == 60
abandonment_threshold == 240

\* The seconds of one check cycle: tasks.loop(seconds=15), and the 15 of
\* "pause_threshold * 15 / 60".
CHECK_INTERVAL_SECONDS == 15

\* SessionSnapshot without last_seen and the titles, which nothing reads.
SessionSnapshot(discord_id, state) ==
    [discord_id |-> discord_id,
     user_playlist_id |-> state.user_playlist_id,
     current_index |-> state.current_index,
     current_item_id |-> state.current_item_id,
     seconds_accum |-> state.seconds_accum,
     session_id |-> state.session_id]

\* get_active_session_states(): the users with a state
TrackedUsers(t) == {d \in Users : t.states[d] # NoState}

\* Mutant: a snapshot is taken once and never refreshed.
update_session_snapshots_once(t) ==
    [t EXCEPT !.session_snapshots =
        [d \in (DOMAIN @) \cup TrackedUsers(t) |->
            IF d \in DOMAIN @ THEN @[d] ELSE SessionSnapshot(d, t.states[d])]]

update_session_snapshots(t) ==
    [t EXCEPT !.session_snapshots =
        [d \in (DOMAIN @) \cup TrackedUsers(t) |->
            IF d \in TrackedUsers(t)
            THEN SessionSnapshot(d, t.states[d])
            ELSE @[d]]]

PausedEvent(snapshot, seconds_absent) ==
    [type |-> "Paused", user |-> snapshot.discord_id,
     user_playlist_id |-> snapshot.user_playlist_id,
     current_index |-> snapshot.current_index,
     current_item_id |-> snapshot.current_item_id,
     seconds_absent |-> seconds_absent, session_id |-> snapshot.session_id]

WaitingEvent(snapshot, seconds_absent) ==
    [type |-> "Waiting", user |-> snapshot.discord_id,
     user_playlist_id |-> snapshot.user_playlist_id,
     current_index |-> snapshot.current_index,
     current_item_id |-> snapshot.current_item_id,
     seconds_absent |-> seconds_absent, session_id |-> snapshot.session_id]

ResumedEvent(snapshot, seconds_away) ==
    [type |-> "Resumed", user |-> snapshot.discord_id,
     user_playlist_id |-> snapshot.user_playlist_id,
     current_index |-> snapshot.current_index,
     current_item_id |-> snapshot.current_item_id,
     seconds_away |-> seconds_away, session_id |-> snapshot.session_id]

\* The event of _emit_abandonment_event_from_snapshot and, given a state in
\* place of the snapshot, of emit_session_abandoned.
AbandonedEvent(discord_id, snapshot) ==
    [type |-> "Abandoned", user |-> discord_id,
     user_playlist_id |-> snapshot.user_playlist_id,
     last_index |-> snapshot.current_index,
     last_item_id |-> snapshot.current_item_id,
     seconds_on_last |-> snapshot.seconds_accum,
     session_id |-> snapshot.session_id]

_reset_user_tracking(t, discord_id) ==
    [t EXCEPT !.user_absence_count = Drop(@, discord_id),
              !.user_pause_time = Drop(@, discord_id),
              !.user_notified_paused = Drop(@, discord_id),
              !.user_notified_waiting = Drop(@, discord_id)]

\* (time - absence_start).total_seconds(); the events carry it divided by 60.
SecondsSince(t, discord_id) == Now - Get(t.user_pause_time, discord_id, Now)

_emit_session_paused_event(t, discord_id) ==
    IF discord_id \in DOMAIN t.session_snapshots
    THEN Emit(t, PausedEvent(t.session_snapshots[discord_id],
                             SecondsSince(t, discord_id)))
    ELSE t

_emit_session_waiting_event(t, discord_id) ==
    IF discord_id \in DOMAIN t.session_snapshots
    THEN Emit(t, WaitingEvent(t.session_snapshots[discord_id],
                              SecondsSince(t, discord_id)))
    ELSE t

\* minutes_away >= pause_threshold * 15 / 60, in seconds on both sides
_emit_session_resumed_event(t, discord_id) ==
    IF /\ SecondsSince(t, discord_id) >= pause_threshold * CHECK_INTERVAL_SECONDS
       /\ discord_id \in DOMAIN t.session_snapshots
    THEN Emit(t, ResumedEvent(t.session_snapshots[discord_id],
                              SecondsSince(t, discord_id)))
    ELSE t

\* The body of the first loop, for one streaming user.
StreamingUserStep(t, discord_id) ==
    _reset_user_tracking(
        IF /\ discord_id \in DOMAIN t.user_absence_count
           /\ Get(t.user_notified_paused, discord_id, FALSE)
        THEN _emit_session_resumed_event(t, discord_id)
        ELSE t,
        discord_id)

\* The body of the second loop, for one tracked user who is not streaming.
AbsentUserStep(t, discord_id) ==
    LET absence_count == Get(t.user_absence_count, discord_id, 0) + 1
        t1 == [t EXCEPT !.user_absence_count = Put(@, discord_id, absence_count)]
        t2 == IF absence_count = 1
              THEN [t1 EXCEPT !.user_pause_time = Put(@, discord_id, Now)]
              ELSE t1
    IN  IF /\ absence_count = pause_threshold
           /\ ~Get(t2.user_notified_paused, discord_id, FALSE)
        THEN [_emit_session_paused_event(t2, discord_id)
                  EXCEPT !.user_notified_paused = Put(@, discord_id, TRUE)]
        ELSE IF /\ absence_count = waiting_threshold
                /\ ~Get(t2.user_notified_waiting, discord_id, FALSE)
        THEN [_emit_session_waiting_event(t2, discord_id)
                  EXCEPT !.user_notified_waiting = Put(@, discord_id, TRUE)]
        ELSE IF absence_count >= abandonment_threshold
        THEN _reset_user_tracking(t2, discord_id)
        ELSE t2

\* The users the second loop adds to abandoned_users.
AbandonedUsers(t, current_streaming_discord_ids, currently_tracked) ==
    {d \in currently_tracked \ current_streaming_discord_ids :
        LET absence_count == Get(t.user_absence_count, d, 0) + 1
        IN  /\ ~(/\ absence_count = pause_threshold
                 /\ ~Get(t.user_notified_paused, d, FALSE))
            /\ ~(/\ absence_count = waiting_threshold
                 /\ ~Get(t.user_notified_waiting, d, FALSE))
            /\ absence_count >= abandonment_threshold}

\* The loops over a set of users, in some order: every pass touches the
\* entries of its own user only.
RECURSIVE StreamingUsersLoop(_, _)
StreamingUsersLoop(t, S) ==
    IF S = {}
    THEN t
    ELSE LET d == CHOOSE x \in S : TRUE
         IN  StreamingUsersLoop(StreamingUserStep(t, d), S \ {d})

RECURSIVE AbsentUsersLoop(_, _)
AbsentUsersLoop(t, S) ==
    IF S = {}
    THEN t
    ELSE LET d == CHOOSE x \in S : TRUE
         IN  AbsentUsersLoop(AbsentUserStep(t, d), S \ {d})

RECURSIVE UntrackedUsersLoop(_, _)
UntrackedUsersLoop(t, S) ==
    IF S = {}
    THEN t
    ELSE LET d == CHOOSE x \in S : TRUE
         IN  UntrackedUsersLoop(_reset_user_tracking(t, d), S \ {d})

_cleanup_untracked_users(t, currently_tracked) ==
    LET t1 == UntrackedUsersLoop(t, (DOMAIN t.user_absence_count) \ currently_tracked)
    IN  [t1 EXCEPT !.session_snapshots =
            [d \in (DOMAIN @) \cap currently_tracked |-> @[d]]]

\* SessionAbandonmentTracker.check_for_abandoned_sessions: the tracker it
\* leaves (the set it returns is AbandonedUsers of the tracker it is given).
check_for_abandoned_sessions(t, current_streaming_discord_ids, currently_tracked) ==
    _cleanup_untracked_users(
        AbsentUsersLoop(StreamingUsersLoop(t, current_streaming_discord_ids),
                        currently_tracked \ current_streaming_discord_ids),
        currently_tracked)

\* Whether handle_session_abandonment returns True.
AbandonmentProcessed(state) == state.is_confirmed

\* Mutant: the accumulated seconds are recorded whatever their share of the
\* runtime.
AbandonTimeToRecord_actual(state) == state.seconds_accum

\* time_to_record of handle_session_abandonment.
AbandonTimeToRecord(state) ==
    LET track_runtime == get_track_runtime(state.current_item_id)
    IN  IF state.seconds_accum * 100 >= track_runtime * COMPLETION_PERCENTAGE
        THEN track_runtime
        ELSE state.seconds_accum

handle_session_abandonment(t, discord_id) ==
    LET state == t.states[discord_id]
        time_to_record == AbandonTimeToRecord(state)
        t1 == IF state.session_id # 0 /\ state.seconds_accum > 0
              THEN [t EXCEPT !.file_events =
                       record_file_completion(@, state.session_id,
                                              state.current_item_id,
                                              state.current_index, time_to_record)]
              ELSE t
        t2 == IF discord_id \in DOMAIN t1.session_snapshots
              THEN Emit(t1, AbandonedEvent(discord_id, t1.session_snapshots[discord_id]))
              ELSE Emit(t1, AbandonedEvent(discord_id, state))
    IN  [(IF state.is_confirmed THEN t2 ELSE t)
            EXCEPT !.session_snapshots = Drop(@, discord_id)]

\* The body of the loop of PlaylistSessionTracker.check_for_abandoned_sessions.
AbandonedUserStep(t, discord_id) ==
    IF t.states[discord_id] = NoState
    THEN t
    ELSE IF AbandonmentProcessed(t.states[discord_id])
    THEN [handle_session_abandonment(t, discord_id)
             EXCEPT !.states[discord_id] = NoState]
    ELSE handle_session_abandonment(t, discord_id)

RECURSIVE AbandonedUsersLoop(_, _)
AbandonedUsersLoop(t, S) ==
    IF S = {}
    THEN t
    ELSE LET d == CHOOSE x \in S : TRUE
         IN  AbandonedUsersLoop(AbandonedUserStep(t, d), S \ {d})

\* PlaylistSessionTracker.check_for_abandoned_sessions
tracker_check_for_abandoned_sessions(t, current_streaming_discord_ids) ==
    AbandonedUsersLoop(
        check_for_abandoned_sessions(t, current_streaming_discord_ids, TrackedUsers(t)),
        AbandonedUsers(t, current_streaming_discord_ids, TrackedUsers(t)))

\* check_sessions from the consumed deltas on (session.py): the deltas go to
\* the tracker, the snapshots are refreshed, the absences are checked.
check_sessions(t, buffer_deltas, current_streaming_discord_ids) ==
    tracker_check_for_abandoned_sessions(
        update_session_snapshots(process_buffer_deltas(t, buffer_deltas)),
        current_streaming_discord_ids)

-----------------------------------------------------------------------------
(* The invocations of VaultPulse._reattach_once_with_sessions in flight
   (session.py).  reattach_lock is 0 or the invocation that holds
   _reattach_lock; an invocation is idle (not called, or returned), waiting
   for the lock, or inside the pass with the sessions it has not looked at. *)

Invocations == {1, 2}

IdleCall == [pc |-> "idle", pending |-> <<>>]

-----------------------------------------------------------------------------
(* The state after construction: BufferManager.__init__,
   PlaylistSessionTracker.__init__, SessionAbandonmentTracker.__init__, and
   empty session tables. *)

Init ==
    /\ buffer = Empty
    /\ consumed_ticks = Empty
    /\ last_known_tick = Empty
    /\ current_track = Empty
    /\ hour = 0
    /\ states = [u \in Users |-> NoState]
    /\ sessions = <<>>
    /\ file_events = <<>>
    /\ background_tasks = <<>>
    /\ user_absence_count = Empty
    /\ user_pause_time = Empty
    /\ user_notified_paused = Empty
    /\ user_notified_waiting = Empty
    /\ session_snapshots = Empty
    /\ pipeline = [pc |-> "get_sessions", pending |-> <<>>, buffer_deltas |-> <<>>,
                   current_streaming_discord_ids |-> {}, done |-> <<>>,
                   after_increments |-> [u \in Users |-> NoState],
                   flush_pc |-> "idle", hourly_buffer |-> Empty,
                   listening_hourly |-> Empty, reattach_has_run |-> FALSE,
                   reattach_lock |-> 0,
                   reattach_calls |-> [p \in Invocations |-> IdleCall]]
    /\ events = <<>>
    /\ last = [op |-> "init", prev_op |-> "init"]
    /\ hist = [steps |-> 0, returned |-> Empty, observed |-> Empty,
               seen_pos |-> Empty, stale |-> Empty,
               absent_run |-> 0, paused_in_run |-> 0, restarts |-> 0,
               calls |-> 0, passes |-> 0, ended |-> {}, play |-> Empty]

-----------------------------------------------------------------------------
(* SpecInc: the increment processor driven through
   PlaylistSessionTracker.process_buffer_deltas, one delta per call, with
   the wall clock moving on between calls. *)

\* Bounds of SpecInc
MaxIncSteps == 4

\* seconds delivered by one delta
SecsChoices == {9, 20, 190}
\* the deltas of one call: <<item, seconds>>.  The long track gets a short
\* delta and one that brings it past its completion threshold.
IncDeltas ==
    ((Items \ {"y"}) \X SecsChoices) \cup {<<"y", 9>>, <<"y", 3650>>}
\* seconds of wall clock between two calls
ElapsedChoices == {15, 250}

IncProcessDelta ==
    \E u \in SoloUsers, delta \in IncDeltas, dt \in ElapsedChoices :
        LET item == delta[1]
            secs == delta[2]
            w0 == ElapseWorld(World, dt)
            w1 == process_buffer_deltas(w0, << <<u, item, secs>> >>)
        IN  /\ hist.steps < MaxIncSteps
            /\ states' = w1.states
            /\ sessions' = w1.sessions
            /\ file_events' = w1.file_events
            /\ background_tasks' = w1.background_tasks
            /\ events' = w1.events
            /\ last' = [op |-> "increment", prev_op |-> last.op, user |-> u,
                        item |-> item,
                        secs |-> secs, pre |-> w0.states[u],
                        pre_sessions |-> sessions,
                        pre_file_events |-> Len(file_events),
                        pre_tasks |-> Len(background_tasks)]
            /\ hist' = [hist EXCEPT !.steps = @ + 1]
            /\ UNCHANGED <<bufferVars, abandonVars, pipeline>>

\* _emit_delayed_playlist_completion: a deferred completion whose sleep has
\* run out emits its Complete event; the done-callback discards the task.
IncDelayedCompletion ==
    \E i \in 1..Len(background_tasks) :
        LET task == background_tasks[i]
            w1 == _emit_completion_event(World, task.discord_id, task.state,
                                         task.total_tracks)
        IN  /\ task.delay = 0
            /\ events' = w1.events
            /\ background_tasks' =
                   [j \in 1..(Len(background_tasks) - 1) |->
                       IF j < i THEN background_tasks[j] ELSE background_tasks[j + 1]]
            /\ last' = [op |-> "delayed_completion", prev_op |-> last.op,
                        user |-> task.discord_id,
                        task |-> task, pre_ended |-> hist.ended]
            /\ hist' = [hist EXCEPT !.ended = EndedAfter(w1.events, @)]
            /\ UNCHANGED <<states, sessions, file_events, bufferVars, abandonVars,
                           pipeline>>

NextInc == IncProcessDelta \/ IncDelayedCompletion

SpecInc == Init /\ [][NextInc]_vars

-----------------------------------------------------------------------------
(* SpecBuf: the tick buffer on its own: position snapshots of one user
   arriving through update(), consume_recent_deltas() called between them,
   and the wall clock crossing into the next hour. *)

\* Bounds of SpecBuf
MaxBufUpdates == 3

\* The hour buckets the wall clock passes through.
Hours == {0, 1}

\* Two tracks short enough for their runtime in ticks: "b" 100 s, "c" 20 s.
BufItems == {"b", "c"}

\* PositionTicks of a snapshot: 0 s, 5 s, 60 s, 70.5 s, 80 s.
PositionChoices == {0, 50000000, 600000000, 705000000, 800000000}

\* History: the playback a snapshot shows for its (user, item), counted
\* generously: its whole position when it is the first one or lies before
\* the previous snapshot's position (playback from 0), the advance since the
\* previous snapshot otherwise.
\* It is kept in tenths of a second (every position is a multiple).
TICKS_PER_TENTH == TICKS_PER_SECOND \div 10

ObservedAdvance(seen, user_item_key, ticks) ==
    (IF user_item_key \notin DOMAIN seen THEN ticks
     ELSE IF ticks >= seen[user_item_key] THEN ticks - seen[user_item_key]
     ELSE ticks) \div TICKS_PER_TENTH

\* History: what sits unsurfaced in the buckets of the track the user leaves
\* (after the gap fill), per bucket.
StaleAfterLeave(stale, b1, user_id, old_item_id) ==
    LET left == {k \in DOMAIN b1.buffer : k[1] = user_id /\ k[2] = old_item_id}
    IN  [k \in (DOMAIN stale) \cup left |->
            IF k \in left
            THEN b1.buffer[k] - Get(b1.consumed_ticks, k, 0)
            ELSE stale[k]]

\* History, per (user, item): whether what was seen of it is one play-through
\* (positions that never decrease, never exceed the runtime and advance by at
\* most 60 s, none after the track was left), and for a play-through the
\* ticks credited to it so far and whether it has been left.
NoPlayThrough == [well |-> FALSE, credited |-> 0, left |-> TRUE]

PlayAfter(play, b0, b1, u, item, ticks, old, h, seen) ==
    LET key == <<u, item>>
        added == Get(b1.buffer, <<u, item, h>>, 0) - Get(b0.buffer, <<u, item, h>>, 0)
        gap == Get(b1.buffer, <<u, old, h>>, 0) - Get(b0.buffer, <<u, old, h>>, 0)
        cur == IF key \notin DOMAIN play
               THEN IF ticks <= _get_track_runtime_ticks(item)
                    THEN [well |-> TRUE, credited |-> added, left |-> FALSE]
                    ELSE NoPlayThrough
               ELSE IF /\ play[key].well
                       /\ ~play[key].left
                       /\ ticks >= seen[key]
                       /\ ticks - seen[key] <= MAX_ALLOWED_DELTA
                       /\ ticks <= _get_track_runtime_ticks(item)
               THEN [play[key] EXCEPT !.credited = @ + added]
               ELSE NoPlayThrough
        p1 == Put(play, key, cur)
    IN  IF old # "none" /\ old # item /\ <<u, old>> \in DOMAIN p1 /\ p1[<<u, old>>].well
        THEN Put(p1, <<u, old>>, [p1[<<u, old>>] EXCEPT !.credited = @ + gap,
                                                        !.left = TRUE])
        ELSE p1

BufUpdate ==
    \E u \in SoloUsers, item \in BufItems, ticks \in PositionChoices :
        LET b0 == BufferState
            b1 == update(b0, u, item, ticks, hour)
            old == Get(current_track, u, "none")
            key == <<u, item>>
        IN  /\ hist.steps < MaxBufUpdates
            /\ buffer' = b1.buffer
            /\ consumed_ticks' = b1.consumed_ticks
            /\ last_known_tick' = b1.last_known_tick
            /\ current_track' = b1.current_track
            /\ hist' = [hist EXCEPT
                   !.steps = @ + 1,
                   !.observed = Put(@, key, Get(@, key, 0)
                                       + ObservedAdvance(hist.seen_pos, key, ticks)),
                   !.seen_pos = Put(@, key, ticks),
                   !.play = PlayAfter(@, b0, b1, u, item, ticks, old, hour,
                                      hist.seen_pos),
                   !.stale = IF old # "none" /\ old # item
                             THEN StaleAfterLeave(@, b1, u, old)
                             ELSE @]
            /\ last' = [op |-> "update", prev_op |-> last.op, user |-> u,
                        item |-> item, ticks |-> ticks, hour |-> hour,
                        old_item |-> old,
                        had_last |-> key \in DOMAIN last_known_tick,
                        prev_last |-> Get(last_known_tick, key, 0),
                        prev_seen |-> Get(hist.seen_pos, key, 0),
                        pre_buffer |-> buffer]
            /\ events' = <<>>
            /\ UNCHANGED <<hour, trackerVars, abandonVars, pipeline>>

RECURSIVE AddReturned(_, _)
AddReturned(returned, deltas) ==
    IF deltas = <<>>
    THEN returned
    ELSE LET d == Head(deltas)
             key == <<d[1], d[2]>>
         IN  AddReturned(Put(returned, key, Get(returned, key, 0) + d[3]),
                         Tail(deltas))

BufConsume ==
    /\ consumed_ticks' = consume_marks(BufferState)
    /\ hist' = [hist EXCEPT !.returned = AddReturned(@, consume_deltas(BufferState))]
    /\ last' = [op |-> "consume", prev_op |-> last.op,
                prev_deltas |-> IF last.op = "consume" THEN last.deltas ELSE <<>>,
                deltas |-> consume_deltas(BufferState)]
    /\ events' = <<>>
    /\ UNCHANGED <<buffer, last_known_tick, current_track, hour, trackerVars,
                   abandonVars, pipeline>>

BufNextHour ==
    /\ hour + 1 \in Hours
    /\ hour' = hour + 1
    /\ last' = [op |-> "hour", prev_op |-> last.op]
    /\ events' = <<>>
    /\ UNCHANGED <<buffer, consumed_ticks, last_known_tick, current_track, hist,
                   trackerVars, abandonVars, pipeline>>

\* clear(), after the periodic flush.  _prune_old_ticks drops the last known
\* positions older than 12 hours; none is that old within Hours.
BufClear ==
    /\ buffer' = Empty
    /\ current_track' = Empty
    /\ consumed_ticks' = Empty
    /\ hist' = [hist EXCEPT !.stale = Empty]
    /\ last' = [op |-> "clear", prev_op |-> last.op]
    /\ events' = <<>>
    /\ UNCHANGED <<last_known_tick, hour, trackerVars, abandonVars, pipeline>>

NextBuf == BufUpdate \/ BufConsume \/ BufNextHour \/ BufClear

SpecBuf == Init /\ [][NextBuf]_vars

-----------------------------------------------------------------------------
(* SpecAbandon: the 15 s check cycle seen from the playlist tracker: every
   tick hands check_sessions the deltas of the streaming users and the set
   of users streaming.  A tick on which the user streams falls 14 or 15 s
   after the one before it (the clock is read after the server's answer has
   arrived); the ticks of an absence are 15 s apart. *)

\* Bounds of SpecAbandon
MaxStreamTicks == 2
MaxAbsentRun == 262

\* The absence counts at which the user is seen streaming again.
ReturnAfter == {0, 1, 20, 60}
StreamTickSeconds == {14, 15}
\* What a streaming tick delivers for the user: nothing, or one delta; for
\* "b" also a delta that covers most of the track.
AbandonDeltas(u) ==
    {<<>>} \cup {<< <<u, item, 9>> >> : item \in Items} \cup {<< <<u, "b", 95>> >>}

TrackerWorld ==
    [states |-> states, sessions |-> sessions, file_events |-> file_events,
     background_tasks |-> background_tasks, events |-> <<>>,
     dispatch |-> "working", raised |-> FALSE,
     user_absence_count |-> user_absence_count,
     user_pause_time |-> user_pause_time,
     user_notified_paused |-> user_notified_paused,
     user_notified_waiting |-> user_notified_waiting,
     session_snapshots |-> session_snapshots]

ElapseTracker(t, dt) ==
    [ElapseWorld(t, dt) EXCEPT
        !.user_pause_time = [d \in DOMAIN @ |-> @[d] - dt]]

\* What the last record keeps of the tracker before the tick.
BeforeTick(u, dt) ==
    [prev_op |-> last.op, user |-> u, dt |-> dt, pre |-> states[u],
     pre_count |-> Get(user_absence_count, u, 0),
     pre_paused |-> Get(user_notified_paused, u, FALSE),
     pre_waiting |-> Get(user_notified_waiting, u, FALSE),
     pre_away |-> Now - Get(user_pause_time, u, Now),
     pre_file_events |-> Len(file_events), pre_ended |-> hist.ended]

TickLeaves(t1) ==
    /\ states' = t1.states
    /\ sessions' = t1.sessions
    /\ file_events' = t1.file_events
    /\ background_tasks' = t1.background_tasks
    /\ events' = t1.events
    /\ user_absence_count' = t1.user_absence_count
    /\ user_pause_time' = t1.user_pause_time
    /\ user_notified_paused' = t1.user_notified_paused
    /\ user_notified_waiting' = t1.user_notified_waiting
    /\ session_snapshots' = t1.session_snapshots

AbandonStreamingTick ==
    \E u \in SoloUsers, dt \in StreamTickSeconds :
        \E buffer_deltas \in AbandonDeltas(u) :
            LET t1 == check_sessions(ElapseTracker(TrackerWorld, dt), buffer_deltas, {u})
            IN  /\ hist.steps < MaxStreamTicks
                /\ Get(user_absence_count, u, 0) \in ReturnAfter
                /\ TickLeaves(t1)
                /\ last' = [op |-> "streaming_tick"] @@ BeforeTick(u, dt)
                /\ hist' = [hist EXCEPT !.steps = @ + 1,
                                        !.absent_run = 0,
                                        !.paused_in_run = 0,
                                        !.ended = EndedAfter(t1.events, @)]
                /\ UNCHANGED <<bufferVars, pipeline>>

AbandonAbsentTick ==
    \E u \in SoloUsers :
        LET t1 == check_sessions(ElapseTracker(TrackerWorld, CHECK_INTERVAL_SECONDS),
                                 <<>>, {})
        IN  /\ hist.absent_run < MaxAbsentRun
            /\ TickLeaves(t1)
            /\ last' = [op |-> "absent_tick", run |-> hist.absent_run + 1]
                            @@ BeforeTick(u, CHECK_INTERVAL_SECONDS)
            /\ hist' = [hist EXCEPT
                   !.absent_run = IF t1.states[u] = NoState THEN 0 ELSE @ + 1,
                   !.paused_in_run = IF t1.states[u] = NoState
                                     THEN 0
                                     ELSE @ + CountType(t1.events, "Paused"),
                   !.ended = EndedAfter(t1.events, @)]
            /\ UNCHANGED <<bufferVars, pipeline>>

NextAbandon == AbandonStreamingTick \/ AbandonAbsentTick \/ IncDelayedCompletion

SpecAbandon == Init /\ [][NextAbandon]_vars

-----------------------------------------------------------------------------
(* The reattachment pass: playlist_tracking_db_helpers.py
   (find_recent_incomplete_session_for_user, get_playlist_item_id_at_index),
   playlist_tracking.py (seed_from_existing_session_row) and
   vaultpulse/session.py (_maybe_reattach_for_jf_session,
   _reattach_once_with_sessions).  A session of the media server is the
   record [user, item, ticks]; the link map from its user to the discord id
   is the identity. *)

REATTACH_LOOKBACK_HOURS == 6

\* The open rows of the user written within the look-back window.
RecentIncomplete(sess, discord_id) ==
    {i \in 1..Len(sess) : /\ sess[i].discord_id = discord_id
                          /\ ~sess[i].is_complete
                          /\ sess[i].last_seen > 0}

\* ORDER BY last_seen DESC LIMIT 1: the id of the row, 0 when there is none.
find_recent_incomplete_session_for_user(sess, discord_id) ==
    IF RecentIncomplete(sess, discord_id) = {}
    THEN 0
    ELSE CHOOSE i \in RecentIncomplete(sess, discord_id) :
             \A j \in RecentIncomplete(sess, discord_id) :
                 sess[j].last_seen <= sess[i].last_seen

get_playlist_item_id_at_index(user_playlist_id, index) ==
    IF index + 1 \in 1..Len(Playlists[user_playlist_id].items)
    THEN Playlists[user_playlist_id].items[index + 1]
    ELSE "none"

\* session_row is [session_id, discord_id, user_playlist_id, current_index].
seed_from_existing_session_row(w, session_row, now_item_id, position_ticks, playlist_length) ==
    IF w.states[session_row.discord_id] # NoState
    THEN w
    ELSE SetState(w, session_row.discord_id,
             [tracked |-> TRUE,
              session_id |-> session_row.session_id,
              user_playlist_id |-> session_row.user_playlist_id,
              current_index |-> session_row.current_index,
              is_confirmed |-> TRUE,
              current_item_id |-> now_item_id,
              seconds_accum |-> position_ticks \div TICKS_PER_SECOND,
              playlist_length |-> playlist_length,
              second_expected |-> "none",
              track_started_at |-> <<>>])

\* Mutant: the row is reattached whatever item is playing.
_maybe_reattach_for_jf_session_any_item(w, jf_session) ==
    LET discord_id == jf_session.user
        sid == find_recent_incomplete_session_for_user(w.sessions, discord_id)
        row == w.sessions[sid]
    IN  IF w.states[discord_id] # NoState \/ sid = 0
        THEN w
        ELSE seed_from_existing_session_row(w,
                 [session_id |-> sid, discord_id |-> discord_id,
                  user_playlist_id |-> row.user_playlist_id,
                  current_index |-> row.current_index],
                 jf_session.item, jf_session.ticks,
                 get_playlist_length(row.user_playlist_id))

_maybe_reattach_for_jf_session(w, jf_session) ==
    LET discord_id == jf_session.user
        now_item_id == jf_session.item
        sid == find_recent_incomplete_session_for_user(w.sessions, discord_id)
        row == w.sessions[sid]
        expected_item_id ==
            get_playlist_item_id_at_index(row.user_playlist_id, row.current_index)
    IN  IF w.states[discord_id] # NoState
        THEN w
        ELSE IF sid = 0
        THEN w
        ELSE IF expected_item_id = "none" \/ expected_item_id # now_item_id
        THEN w
        ELSE seed_from_existing_session_row(w,
                 [session_id |-> sid, discord_id |-> discord_id,
                  user_playlist_id |-> row.user_playlist_id,
                  current_index |-> row.current_index],
                 now_item_id, jf_session.ticks,
                 get_playlist_length(row.user_playlist_id))

\* The pass over the sessions, run once per boot.
RECURSIVE _reattach_once_with_sessions(_, _)
_reattach_once_with_sessions(w, jf_sessions) ==
    IF jf_sessions = <<>>
    THEN w
    ELSE _reattach_once_with_sessions(
             _maybe_reattach_for_jf_session(w, Head(jf_sessions)),
             Tail(jf_sessions))

-----------------------------------------------------------------------------
(* SpecTick: one run of VaultPulse.check_sessions after the other, statement
   by statement.  Every statement of the body awaits, so that another task of
   the event loop (a deferred completion) can run between two of them; the
   loop of discord.ext.tasks starts a run only when the previous one has
   returned.  The first run of a boot starts with the reattachment pass,
   which finds no row in SpecTick: the session tables are empty when the
   first run starts.  The embed update at the end of the body touches nothing
   of the model. *)

\* Bound of SpecTick: the runs of check_sessions.
MaxTicks == 3

Stream(user_id, item_id, secs) ==
    [user |-> user_id, item |-> item_id, ticks |-> secs * TICKS_PER_SECOND]

\* What get_sessions() can return as the streaming sessions of a run.
TickStreams ==
    { <<>>,
      << Stream("u1", "c", 5) >>,
      << Stream("u1", "c", 19) >>,
      << Stream("u1", "b", 5) >>,
      << Stream("u1", "c", 5), Stream("u2", "c", 5) >>,
      << Stream("u1", "c", 19), Stream("u2", "b", 5) >>,
      << Stream("u1", "c", 19), Stream("u1", "c", 5) >> }

\* Mutant: the abandonment check runs before the increments are processed.
AfterStep_check_first(step, pending, buffer_deltas) ==
    CASE step = "get_sessions" -> IF pending = <<>> THEN "consume" ELSE "update"
      [] step = "update" -> IF pending = <<>> THEN "consume" ELSE "update"
      [] step = "consume" -> "abandon"
      [] step = "abandon" -> IF buffer_deltas = <<>> THEN "snapshot" ELSE "increment"
      [] step = "increment" -> "snapshot"
      [] step = "snapshot" -> "get_sessions"

\* The statement of check_sessions that runs after a given one.
AfterStep(step, pending, buffer_deltas) ==
    CASE step = "get_sessions" -> IF pending = <<>> THEN "consume" ELSE "update"
      [] step = "update" -> IF pending = <<>> THEN "consume" ELSE "update"
      [] step = "consume" -> IF buffer_deltas = <<>> THEN "snapshot" ELSE "increment"
      [] step = "increment" -> "snapshot"
      [] step = "snapshot" -> "abandon"
      [] step = "abandon" -> "get_sessions"

\* sessions = await self.client.get_sessions(), up to the set of streaming
\* discord ids, the reattachment pass of the first run of a boot included;
\* 15 seconds have passed since the previous run started.
TickGetSessions ==
    \E streaming \in TickStreams :
        LET t0 == ElapseTracker(TrackerWorld, CHECK_INTERVAL_SECONDS)
            t1 == IF pipeline.reattach_has_run
                  THEN t0
                  ELSE _reattach_once_with_sessions(t0, streaming)
        IN  /\ pipeline.pc = "get_sessions"
            /\ hist.steps < MaxTicks
            /\ TickLeaves(t1)
            /\ pipeline' = [pipeline EXCEPT
                   !.reattach_has_run = TRUE,
                   !.pc = AfterStep("get_sessions", streaming, <<>>),
                   !.pending = streaming,
                   !.buffer_deltas = <<>>,
                   !.current_streaming_discord_ids =
                       {streaming[i].user : i \in 1..Len(streaming)},
                   !.done = <<>>,
                   !.after_increments = t1.states]
            /\ last' = [op |-> "get_sessions", prev_op |-> last.op,
                        streaming |-> streaming, prev_done |-> pipeline.done,
                        reattach |-> ~pipeline.reattach_has_run,
                        pre_states |-> t0.states, pre_sessions |-> t0.sessions]
            /\ hist' = [hist EXCEPT !.steps = @ + 1]
            /\ UNCHANGED bufferVars

\* for session in streaming: await self.buffer.update(session), one session
TickBufferUpdate ==
    LET session == Head(pipeline.pending)
        b1 == update(BufferState, session.user, session.item, session.ticks, hour)
    IN  /\ pipeline.pc = "update"
        /\ buffer' = b1.buffer
        /\ consumed_ticks' = b1.consumed_ticks
        /\ last_known_tick' = b1.last_known_tick
        /\ current_track' = b1.current_track
        /\ pipeline' = [pipeline EXCEPT
               !.pc = AfterStep("update", Tail(pipeline.pending), <<>>),
               !.pending = Tail(@),
               !.done = Append(@, "update")]
        /\ last' = [op |-> "update_session", prev_op |-> last.op,
                    user |-> session.user]
        /\ events' = <<>>
        /\ UNCHANGED <<hour, trackerVars, abandonVars, hist>>

\* buffer_deltas = self.buffer.consume_recent_deltas()
TickConsume ==
    LET buffer_deltas == consume_deltas(BufferState)
    IN  /\ pipeline.pc = "consume"
        /\ consumed_ticks' = consume_marks(BufferState)
        /\ pipeline' = [pipeline EXCEPT
               !.pc = AfterStep("consume", pipeline.pending, buffer_deltas),
               !.buffer_deltas = buffer_deltas,
               !.done = Append(@, "consume")]
        /\ last' = [op |-> "consume_deltas", prev_op |-> last.op,
                    pending |-> pipeline.pending]
        /\ events' = <<>>
        /\ UNCHANGED <<buffer, last_known_tick, current_track, hour, trackerVars,
                       abandonVars, hist>>

\* await self.playlist_tracker.process_buffer_deltas(buffer_deltas)
TickIncrements ==
    LET w1 == process_buffer_deltas(TrackerWorld, pipeline.buffer_deltas)
    IN  /\ pipeline.pc = "increment"
        /\ TickLeaves(w1)
        /\ pipeline' = [pipeline EXCEPT
               !.pc = AfterStep("increment", pipeline.pending, pipeline.buffer_deltas),
               !.done = Append(@, "increment"),
               !.after_increments = w1.states]
        /\ last' = [op |-> "process_deltas", prev_op |-> last.op,
                    pre_states |-> states]
        /\ UNCHANGED <<bufferVars, hist>>

\* await ...abandonment_tracker.update_session_snapshots(current_states)
TickSnapshot ==
    LET t1 == update_session_snapshots(TrackerWorld)
    IN  /\ pipeline.pc = "snapshot"
        /\ TickLeaves(t1)
        /\ pipeline' = [pipeline EXCEPT
               !.pc = AfterStep("snapshot", pipeline.pending, pipeline.buffer_deltas),
               !.done = Append(@, "snapshot")]
        /\ last' = [op |-> "refresh_snapshots", prev_op |-> last.op,
                    observed |-> states]
        /\ UNCHANGED <<bufferVars, hist>>

\* await self.playlist_tracker.check_for_abandoned_sessions(...); the run
\* returns after it.
TickAbandonCheck ==
    LET t1 == tracker_check_for_abandoned_sessions(
                  TrackerWorld, pipeline.current_streaming_discord_ids)
    IN  /\ pipeline.pc = "abandon"
        /\ TickLeaves(t1)
        /\ pipeline' = [pipeline EXCEPT
               !.pc = AfterStep("abandon", pipeline.pending, pipeline.buffer_deltas),
               !.done = Append(@, "abandon")]
        /\ last' = [op |-> "abandon_check", prev_op |-> last.op,
                    observed |-> states,
                    observed_snapshots |-> session_snapshots]
        /\ UNCHANGED <<bufferVars, hist>>

NextTick ==
    \/ TickGetSessions
    \/ TickBufferUpdate
    \/ TickConsume
    \/ TickIncrements
    \/ TickSnapshot
    \/ TickAbandonCheck
    \/ IncDelayedCompletion

SpecTick == Init /\ [][NextTick]_vars

-----------------------------------------------------------------------------
(* SpecCog: the tasks of the VaultPulse cog on one event loop: the runs of
   check_sessions, the flush of the hourly buckets (flush_hourly_chunks, and
   the flush cog_unload starts), the deferred completions, and cog_unload.
   A task runs while the others are suspended in an await.  The flush runs
   while check_sessions sleeps between two runs or is suspended in the
   database calls of process_buffer_deltas. *)

\* check_sessions is suspended: asleep between two runs, or in the database
\* calls of process_buffer_deltas.
TickSuspended ==
    \/ pipeline.pc \in {"get_sessions", "unloaded"}
    \/ /\ pipeline.pc = "snapshot"
       /\ \E i \in 1..Len(pipeline.done) : pipeline.done[i] = "increment"

\* flush_hourly_buffer: ticks = ticks + excluded.ticks for every bucket.
flush_hourly_buffer(listening_hourly, hourly_buffer) ==
    [k \in (DOMAIN listening_hourly) \cup (DOMAIN hourly_buffer) |->
        Get(listening_hourly, k, 0) + Get(hourly_buffer, k, 0)]

\* flush(), up to the await of flush_buffer: the buckets are not empty, and
\* get_ticks_for_flush() hands a copy of them to flush_buffer.
FlushWrite ==
    /\ TickSuspended
    /\ pipeline.flush_pc = "idle"
    /\ buffer # Empty
    /\ pipeline' = [pipeline EXCEPT
           !.flush_pc = "written",
           !.hourly_buffer = buffer,
           !.listening_hourly = flush_hourly_buffer(@, buffer)]
    /\ last' = [op |-> "flush_write", prev_op |-> last.op]
    /\ events' = <<>>
    /\ UNCHANGED <<bufferVars, trackerVars, abandonVars, hist>>

\* flush(), from the return of flush_buffer: self.buffer.clear().
FlushClear ==
    /\ TickSuspended
    /\ pipeline.flush_pc = "written"
    /\ buffer' = Empty
    /\ current_track' = Empty
    /\ consumed_ticks' = Empty
    /\ pipeline' = [pipeline EXCEPT !.flush_pc = "idle", !.hourly_buffer = Empty]
    /\ last' = [op |-> "flush_clear", prev_op |-> last.op,
                cleared |-> buffer, written |-> pipeline.hourly_buffer]
    /\ events' = <<>>
    /\ UNCHANGED <<last_known_tick, hour, trackerVars, abandonVars, hist>>

\* cog_unload, run while check_sessions is suspended: the three loops are
\* cancelled (the run of check_sessions in progress ends at its await), the
\* deferred completions are left alone.  The flush it starts is FlushWrite.
CogUnload ==
    /\ TickSuspended
    /\ pipeline.pc # "unloaded"
    /\ pipeline' = [pipeline EXCEPT !.pc = "unloaded"]
    /\ last' = [op |-> "cog_unload", prev_op |-> last.op]
    /\ events' = <<>>
    /\ UNCHANGED <<bufferVars, trackerVars, abandonVars, hist>>

\* After cog_unload the event loop runs on: the time passes until the first
\* sleeping deferred completion wakes up.
UnloadedElapse ==
    LET sleeping == {i \in 1..Len(background_tasks) : background_tasks[i].delay > 0}
        dt == MinOf({background_tasks[i].delay : i \in sleeping})
        t1 == ElapseTracker(TrackerWorld, dt)
    IN  /\ pipeline.pc = "unloaded"
        /\ sleeping # {}
        /\ TickLeaves(t1)
        /\ last' = [op |-> "elapse", prev_op |-> last.op]
        /\ UNCHANGED <<bufferVars, pipeline, hist>>

NextCog ==
    \/ NextTick
    \/ FlushWrite
    \/ FlushClear
    \/ CogUnload
    \/ UnloadedElapse

SpecCog == Init /\ [][NextCog]_vars

-----------------------------------------------------------------------------
(* SpecBoot: the runs of check_sessions across a restart of the process.
   What the process keeps in memory is lost; the tables stay.  The runs
   before the stop last minutes, so that after a stop shorter than the
   look-back window every row they wrote is within the window, and after a
   longer one none is. *)

\* Bound of SpecBoot: the restarts of the process.
MaxRestarts == 1

\* hours between the stop and the first run of the next boot
DowntimeHours == {1, 7}

\* The rows of playlist_sessions after the process was down that long.
AfterDowntime(sess, downtime) ==
    IF downtime >= REATTACH_LOOKBACK_HOURS
    THEN [i \in 1..Len(sess) |-> [sess[i] EXCEPT !.last_seen = 0]]
    ELSE sess

\* The process stops between two statements of check_sessions and boots
\* again: VaultPulse, its BufferManager and PlaylistSessionTracker are built
\* anew.
ProcessRestart ==
    \E downtime \in DowntimeHours :
        /\ hist.restarts < MaxRestarts
        /\ buffer' = Empty
        /\ consumed_ticks' = Empty
        /\ last_known_tick' = Empty
        /\ current_track' = Empty
        /\ states' = [u \in Users |-> NoState]
        /\ sessions' = AfterDowntime(sessions, downtime)
        /\ background_tasks' = <<>>
        /\ user_absence_count' = Empty
        /\ user_pause_time' = Empty
        /\ user_notified_paused' = Empty
        /\ user_notified_waiting' = Empty
        /\ session_snapshots' = Empty
        /\ pipeline' = [pc |-> "get_sessions", pending |-> <<>>,
                        buffer_deltas |-> <<>>,
                        current_streaming_discord_ids |-> {}, done |-> <<>>,
                        after_increments |-> [u \in Users |-> NoState],
                        flush_pc |-> "idle", hourly_buffer |-> Empty,
                        listening_hourly |-> pipeline.listening_hourly,
                        reattach_has_run |-> FALSE,
                        reattach_lock |-> 0,
                        reattach_calls |-> [p \in Invocations |-> IdleCall]]
        /\ events' = <<>>
        /\ last' = [op |-> "restart", prev_op |-> last.op, downtime |-> downtime]
        /\ hist' = [hist EXCEPT !.restarts = @ + 1, !.calls = 0, !.passes = 0]
        /\ UNCHANGED <<hour, file_events>>

NextBoot ==
    \/ NextTick
    \/ ProcessRestart

SpecBoot == Init /\ [][NextBoot]_vars

-----------------------------------------------------------------------------
(* SpecFault: PlaylistSessionTracker.process_buffer_deltas on the deltas of
   one tick, for one or two users, while one call into the persistence layer
   may raise during the processing of one of the deltas. *)

\* Bound of SpecFault: the batches of deltas.
MaxFaultBatches == 3

\* The deltas consume_recent_deltas() hands over in one tick, one per user,
\* in the order of the buffer's keys.
FaultBatches ==
    { << <<"u1", "a", 5>> >>,
      << <<"u1", "b", 5>> >>,
      << <<"u1", "c", 5>> >>,
      << <<"u1", "c", 14>> >>,
      << <<"u2", "c", 5>> >>,
      << <<"u1", "c", 5>>, <<"u2", "c", 5>> >>,
      << <<"u2", "c", 5>>, <<"u1", "c", 5>> >>,
      << <<"u1", "b", 5>>, <<"u2", "b", 5>> >>,
      << <<"u2", "b", 5>>, <<"u1", "a", 5>> >> }

\* A fault is an input only where the call it names is made.
FaultProcessDeltas ==
    \E buffer_deltas \in FaultBatches, fault \in DbCalls \cup {"none"} :
        \E failing \in (IF fault = "none" THEN {0} ELSE 1..Len(buffer_deltas)) :
            LET w0 == ElapseWorld(World, CHECK_INTERVAL_SECONDS)
                w1 == process_buffer_deltas_failing(w0, buffer_deltas, fault, failing)
                raised_at == RaisedAt(w0, buffer_deltas, fault, failing)
                others == SelectSeq(buffer_deltas,
                              LAMBDA d : raised_at > 0 /\ d[1] # buffer_deltas[raised_at][1])
            IN  /\ hist.steps < MaxFaultBatches
                /\ fault # "none" => raised_at = failing
                /\ states' = w1.states
                /\ sessions' = w1.sessions
                /\ file_events' = w1.file_events
                /\ background_tasks' = w1.background_tasks
                /\ events' = w1.events
                /\ last' = [op |-> "batch", prev_op |-> last.op,
                            buffer_deltas |-> buffer_deltas, fault |-> fault,
                            raised_at |-> raised_at,
                            pre_states |-> w0.states,
                            others_processed |->
                                process_buffer_deltas(w0, others).states]
                /\ hist' = [hist EXCEPT !.steps = @ + 1]
                /\ UNCHANGED <<bufferVars, abandonVars, pipeline>>

NextFault == FaultProcessDeltas \/ IncDelayedCompletion

SpecFault == Init /\ [][NextFault]_vars

-----------------------------------------------------------------------------
(* SpecReattach: invocations of _reattach_once_with_sessions, one per run of
   check_sessions or several at once, from one suspension point to the next,
   between runs of the rest of check_sessions and restarts of the process. *)

\* Bound of SpecReattach: the invocations of one boot.
MaxReattachCalls == 3

\* The sessions an invocation is called with.
ReattachStreams ==
    { <<>>,
      << Stream("u1", "b", 5) >>,
      << Stream("u1", "a", 5), Stream("u1", "b", 5) >> }

\* Mutant: the pass is marked as run only when it had sessions to look at.
MarkedAsRun_with_sessions(jf_sessions) == jf_sessions # <<>>

\* self._reattach_has_run = True, before the sessions are looked at.
MarkedAsRun(jf_sessions) == TRUE

\* The body of "async with self._reattach_lock" up to its first await, for
\* invocation p that has just taken the lock.
EnterPass(pl, p, jf_sessions) ==
    IF pl.reattach_has_run
    THEN [pl EXCEPT !.reattach_lock = 0, !.reattach_calls[p] = IdleCall]
    ELSE IF jf_sessions = <<>>
    THEN [pl EXCEPT !.reattach_has_run = MarkedAsRun(jf_sessions),
                    !.reattach_lock = 0,
                    !.reattach_calls[p] = IdleCall]
    ELSE [pl EXCEPT !.reattach_has_run = MarkedAsRun(jf_sessions),
                    !.reattach_lock = p,
                    !.reattach_calls[p] = [pc |-> "pass", pending |-> jf_sessions]]

\* An invocation from its call to its first suspension: the first look at the
\* flag, then the lock, taken at once when free and waited for otherwise (no
\* invocation ever gets there: the flag is set before the holder of the lock
\* suspends).
ReattachCall ==
    \E p \in Invocations, jf_sessions \in ReattachStreams :
        LET locked == pipeline.reattach_lock # 0
            pl == IF pipeline.reattach_has_run
                  THEN pipeline
                  ELSE IF locked
                  THEN [pipeline EXCEPT !.reattach_calls[p] =
                            [pc |-> "waiting", pending |-> jf_sessions]]
                  ELSE EnterPass(pipeline, p, jf_sessions)
        IN  /\ pipeline.reattach_calls[p].pc = "idle"
            /\ hist.calls < MaxReattachCalls
            /\ pipeline' = pl
            /\ last' = [op |-> "reattach_call", prev_op |-> last.op, invocation |-> p,
                        jf_sessions |-> jf_sessions,
                        has_run |-> pipeline.reattach_has_run, locked |-> locked]
            /\ hist' = [hist EXCEPT
                   !.calls = @ + 1,
                   !.passes = IF ~pipeline.reattach_has_run /\ ~locked
                              THEN @ + 1 ELSE @]
            /\ events' = <<>>
            /\ UNCHANGED <<bufferVars, trackerVars, abandonVars>>

\* One turn of the loop of the pass: await _maybe_reattach_for_jf_session(s);
\* the lock is released after the last.
ReattachSession ==
    \E p \in Invocations :
        LET call == pipeline.reattach_calls[p]
            t1 == _maybe_reattach_for_jf_session(TrackerWorld, Head(call.pending))
        IN  /\ call.pc = "pass"
            /\ TickLeaves(t1)
            /\ pipeline' =
                   IF Tail(call.pending) = <<>>
                   THEN [pipeline EXCEPT !.reattach_lock = 0,
                                         !.reattach_calls[p] = IdleCall]
                   ELSE [pipeline EXCEPT !.reattach_calls[p].pending = Tail(@)]
            /\ last' = [op |-> "reattach_session", prev_op |-> last.op,
                        invocation |-> p, jf_session |-> Head(call.pending),
                        pre_states |-> states]
            /\ UNCHANGED <<bufferVars, hist>>

\* The rest of check_sessions, for a user who streams item a or b.
ReattachStreamingTick ==
    \E u \in SoloUsers, item \in {"a", "b"} :
        LET t1 == check_sessions(ElapseTracker(TrackerWorld, CHECK_INTERVAL_SECONDS),
                                 << <<u, item, 9>> >>, {u})
        IN  /\ hist.steps < MaxStreamTicks
            /\ TickLeaves(t1)
            /\ last' = [op |-> "streaming_tick"] @@ BeforeTick(u, CHECK_INTERVAL_SECONDS)
            /\ hist' = [hist EXCEPT !.steps = @ + 1]
            /\ UNCHANGED <<bufferVars, pipeline>>

NextReattach ==
    \/ ReattachCall
    \/ ReattachSession
    \/ ReattachStreamingTick
    \/ ProcessRestart

SpecReattach == Init /\ [][NextReattach]_vars

-----------------------------------------------------------------------------
(* SpecSink: the ticks of SpecAbandon and the deferred completions with a
   sink, or an enrichment lookup, that may be missing or raise while a tick
   emits. *)

\* Bounds of SpecSink: the ticks with the user streaming, the length of a
\* continuous absence.
MaxSinkTicks == 2
MaxSinkAbsentRun == 240

\* The absence counts at which the user may stream again.
SinkReturnAfter == {0, 20}

\* What a streaming tick delivers for the user: nothing, or one delta.
SinkDeltas(u) == {<<>>} \cup {<< <<u, item, 9>> >> : item \in {"a", "b", "c", "x"}}

\* What the last record keeps of the tracker a tick leaves behind.
TrackerState(t) ==
    [states |-> t.states, sessions |-> t.sessions, file_events |-> t.file_events,
     background_tasks |-> t.background_tasks,
     user_absence_count |-> t.user_absence_count,
     user_pause_time |-> t.user_pause_time,
     user_notified_paused |-> t.user_notified_paused,
     user_notified_waiting |-> t.user_notified_waiting,
     session_snapshots |-> t.session_snapshots]

\* A failure of the sink is an input only where the tick emits.
SinkTick(u, dt, buffer_deltas, streaming, dispatch, op) ==
    LET t0 == ElapseTracker(TrackerWorld, dt)
        working == check_sessions(t0, buffer_deltas, streaming)
        t1 == check_sessions([t0 EXCEPT !.dispatch = dispatch], buffer_deltas, streaming)
    IN  /\ dispatch # "working" => working.events # <<>>
        /\ TickLeaves(t1)
        /\ last' = [op |-> op, dispatch |-> dispatch, raised |-> t1.raised,
                    working |-> TrackerState(working),
                    working_events |-> working.events] @@ BeforeTick(u, dt)

SinkStreamingTick ==
    \E u \in SoloUsers, dispatch \in DispatchModes :
        \E buffer_deltas \in SinkDeltas(u) :
            /\ hist.steps < MaxSinkTicks
            /\ Get(user_absence_count, u, 0) \in SinkReturnAfter
            /\ SinkTick(u, CHECK_INTERVAL_SECONDS, buffer_deltas, {u}, dispatch,
                        "streaming_tick")
            /\ hist' = [hist EXCEPT !.steps = @ + 1, !.absent_run = 0]
            /\ UNCHANGED <<bufferVars, pipeline>>

SinkAbsentTick ==
    \E u \in SoloUsers, dispatch \in DispatchModes :
        /\ hist.absent_run < MaxSinkAbsentRun
        /\ SinkTick(u, CHECK_INTERVAL_SECONDS, <<>>, {}, dispatch, "absent_tick")
        /\ hist' = [hist EXCEPT !.absent_run = IF states'[u] = NoState THEN 0 ELSE @ + 1]
        /\ UNCHANGED <<bufferVars, pipeline>>

\* _emit_delayed_playlist_completion with a sink that may fail.
SinkDelayedCompletion ==
    \E i \in 1..Len(background_tasks), dispatch \in DispatchModes :
        LET task == background_tasks[i]
            w1 == _emit_completion_event([World EXCEPT !.dispatch = dispatch],
                                         task.discord_id, task.state, task.total_tracks)
        IN  /\ task.delay = 0
            /\ events' = w1.events
            /\ background_tasks' =
                   [j \in 1..(Len(background_tasks) - 1) |->
                       IF j < i THEN background_tasks[j] ELSE background_tasks[j + 1]]
            /\ last' = [op |-> "delayed_completion", prev_op |-> last.op,
                        user |-> task.discord_id, task |-> task,
                        dispatch |-> dispatch, raised |-> w1.raised,
                        working |-> [TrackerState(TrackerWorld) EXCEPT
                                        !.background_tasks = background_tasks']]
            /\ UNCHANGED <<states, sessions, file_events, hist, bufferVars, abandonVars,
                           pipeline>>

NextSink == SinkStreamingTick \/ SinkAbsentTick \/ SinkDelayedCompletion

SpecSink == Init /\ [][NextSink]_vars

-----------------------------------------------------------------------------
(* Properties of the increment processor (SpecInc) *)

\* The last operation was an increment for a user with a tracked session.
IncOnTracked == last.op = "increment" /\ last.pre # NoState


\* The increment observed the item at currentIndex + 1 of the tracked playlist.
SequentialCase ==
    /\ IncOnTracked
    /\ last.item # last.pre.current_item_id
    /\ last.item = get_playlist_track_at_index(last.pre.user_playlist_id,
                                               last.pre.current_index + 1)

\* 100 * T, with T = max(10 s, 0.67 x runtime of the track being left)
ClaimedAdvanceThreshold100 ==
    Max(100 * 10, 67 * TrackRuntime[last.pre.current_item_id])

ElapsedOnTrack ==
    IF last.pre.track_started_at = <<>> THEN 0 ELSE 0 - last.pre.track_started_at[1]

ClaimedAccepted ==
    \/ 100 * last.pre.seconds_accum >= ClaimedAdvanceThreshold100
    \/ 100 * ElapsedOnTrack >= ClaimedAdvanceThreshold100

\* C1: when a tracked session observes the item at currentIndex+1, exactly one
\* event is emitted: Advance if secondsAccum or the wall-clock time on the
\* track reaches T = max(10 s, 0.67 x runtime), Jump otherwise; in both cases
\* currentIndex becomes currentIndex + 1.
C1_SequentialAdvanceOrJump ==
    SequentialCase =>
        /\ Len(events) = 1
        /\ events[1].type = IF ClaimedAccepted THEN "Advance" ELSE "Jump"
        /\ events[1].from_index = last.pre.current_index
        /\ states[last.user] # NoState
        /\ states[last.user].current_index = last.pre.current_index + 1
        /\ states[last.user].current_item_id = last.item

\* C1 witness: runtime 300 s, 20 s accumulated, 250 s of wall clock on the
\* track: the move is accepted as an Advance by the timestamp check.
C1_Witness ==
    /\ SequentialCase
    /\ TrackRuntime[last.pre.current_item_id] = 300
    /\ last.pre.seconds_accum = 20
    /\ ElapsedOnTrack = 250
    /\ TypesOf(events) = <<"Advance">>
    /\ states[last.user].current_index = last.pre.current_index + 1

\* A confirmed session observed a track of its playlist that is neither the
\* current one nor the next one.
NonSequentialCase ==
    /\ IncOnTracked
    /\ last.pre.is_confirmed
    /\ last.item \in _get_all_playlist_items(last.pre.user_playlist_id)
    /\ last.item # last.pre.current_item_id
    /\ last.item # get_playlist_track_at_index(last.pre.user_playlist_id,
                                               last.pre.current_index + 1)

\* C2: a confirmed session that observes a track of its playlist that is
\* neither the current nor the next one moves currentIndex to that track's
\* order index and emits a Jump event, not an Advance event.
C2_NonSequentialEmitsJump ==
    NonSequentialCase =>
        /\ states[last.user] # NoState
        /\ states[last.user].current_index =
               get_order_index_for_item(last.pre.user_playlist_id, last.item)
        /\ TypesOf(events) = <<"Jump">>

\* The increment is on the item of a confirmed session's last track.
FinalTrackCase ==
    /\ IncOnTracked
    /\ last.pre.is_confirmed
    /\ last.item = last.pre.current_item_id
    /\ last.pre.current_index = Len(Playlists[last.pre.user_playlist_id].items) - 1

ReachedNinetyPercent ==
    100 * (last.pre.seconds_accum + last.secs) >= 90 * TrackRuntime[last.item]

\* This increment produced a Complete: emitted at once or scheduled.
CompleteProduced ==
    \/ CountType(events, "Complete") > 0
    \/ Len(background_tasks) > last.pre_tasks

\* C3: on the last track of a confirmed session, an increment that brings
\* secondsAccum to at least 90% of the runtime marks the session complete,
\* produces exactly one Complete and removes the state; below 90% the state
\* is kept and no Complete is produced.  No Complete is ever produced for an
\* unconfirmed session or on a non-final track.
C3_CompletionAtNinetyPercent ==
    /\ (FinalTrackCase /\ ReachedNinetyPercent) =>
          /\ states[last.user] = NoState
          /\ last.pre.session_id \in 1..Len(sessions)
          /\ sessions[last.pre.session_id].is_complete
          /\ CountType(events, "Complete") + (Len(background_tasks) - last.pre_tasks) = 1
    /\ (FinalTrackCase /\ ~ReachedNinetyPercent) =>
          /\ states[last.user] # NoState
          /\ states[last.user].seconds_accum = last.pre.seconds_accum + last.secs
          /\ ~CompleteProduced
    /\ (last.op = "increment" /\ CompleteProduced) =>
          (FinalTrackCase /\ ReachedNinetyPercent)
    /\ (last.op = "delayed_completion") =>
          /\ last.task.state.is_confirmed
          /\ last.task.state.current_index = last.task.total_tracks - 1
          /\ TypesOf(events) = <<"Complete">>

\* C3 witness: the last track (runtime 20 s) reaches exactly 18 s.
C3_Witness ==
    /\ FinalTrackCase
    /\ TrackRuntime[last.item] = 20
    /\ last.pre.seconds_accum + last.secs = 18
    /\ states[last.user] = NoState
    /\ sessions[last.pre.session_id].is_complete
    /\ Len(background_tasks) = last.pre_tasks + 1

-----------------------------------------------------------------------------
(* Properties of the tick buffer (SpecBuf) *)

\* C7: for every (user, item) the sum of the seconds consume_recent_deltas
\* has returned never exceeds the playback observed for it (the observed
\* position advance, in tenths of a second on both sides).
C7_ReturnedWithinObserved ==
    \A k \in DOMAIN hist.returned :
        hist.returned[k] * 10 <= Get(hist.observed, k, 0)

ConsumeAfterConsume == last.op = "consume" /\ last.prev_op = "consume"

\* C8: a consume_recent_deltas call that directly follows another one, with
\* no update between them, returns no delta.
C8_SecondConsumeReturnsNothing ==
    ConsumeAfterConsume => last.deltas = <<>>

\* The first of the two calls did return listening time.
C8_Witness ==
    /\ ConsumeAfterConsume
    /\ last.prev_deltas # <<>>
    /\ last.deltas = <<>>

\* C9: consume_recent_deltas returns deltas only for the item the user is
\* playing, and the ticks left unsurfaced in the buckets of an item the user
\* has left (gap fill included) stay unsurfaced in every later call.
C9_StaleTicksNeverSurfaced ==
    /\ last.op = "consume" =>
           \A n \in 1..Len(last.deltas) :
               last.deltas[n][2] = Get(current_track, last.deltas[n][1], "none")
    /\ \A k \in DOMAIN hist.stale :
           /\ k \in DOMAIN buffer
           /\ buffer[k] - Get(consumed_ticks, k, 0) >= hist.stale[k]

\* The last step was an update whose position lies more than MAX_JUMP_BACK
\* below the last known position of its (user, item).
RestartCase ==
    /\ last.op = "update"
    /\ last.had_last
    /\ last.ticks < last.prev_last - MAX_JUMP_BACK

\* What the last update added to the bucket of its (user, item, hour).
Credited ==
    Get(buffer, <<last.user, last.item, last.hour>>, 0)
        - Get(last.pre_buffer, <<last.user, last.item, last.hour>>, 0)

NoBucketReduced ==
    last.op = "update" =>
        \A k \in DOMAIN last.pre_buffer :
            k \in DOMAIN buffer /\ buffer[k] >= last.pre_buffer[k]

-----------------------------------------------------------------------------
(* Properties of the abandonment tracker (SpecAbandon) *)

\* C4: while a tracked user stays continuously absent, Paused has been
\* emitted exactly once from the tick where the absence reaches
\* pause_threshold on, and not at all before it.
C4_PausedOncePerAbsence ==
    hist.paused_in_run = IF hist.absent_run >= pause_threshold THEN 1 ELSE 0

\* The last tick saw a tracked user streaming again after Paused was emitted.
ReturnAfterPaused ==
    /\ last.op = "streaming_tick"
    /\ last.pre # NoState
    /\ last.pre_paused

\* C5: a tracked user who reappears after Paused (or Waiting) gets exactly
\* one Resumed event carrying the time since the first absent tick, and the
\* absence count, first-absence time and both flags are cleared in that tick.
C5_ResumedOnReturn ==
    ReturnAfterPaused =>
        /\ CountType(events, "Resumed") = 1
        /\ \A i \in 1..Len(events) :
               events[i].type = "Resumed" =>
                   events[i].seconds_away = last.pre_away + last.dt
        /\ last.user \notin DOMAIN user_absence_count
        /\ last.user \notin DOMAIN user_pause_time
        /\ last.user \notin DOMAIN user_notified_paused
        /\ last.user \notin DOMAIN user_notified_waiting

\* The last tick was the one in which a tracked user's absence reached
\* abandonment_threshold.
AbandonmentTick ==
    /\ last.op = "absent_tick"
    /\ last.pre # NoState
    /\ last.pre_count + 1 >= abandonment_threshold

\* C6: in the tick where the absence of a tracked user reaches
\* abandonment_threshold the state is removed, confirmed or not, with exactly
\* one Abandoned event for a confirmed session and none for an unconfirmed.
C6_StateRemovedAtAbandonment ==
    AbandonmentTick =>
        /\ states[last.user] = NoState
        /\ CountType(events, "Abandoned") = IF last.pre.is_confirmed THEN 1 ELSE 0

\* The last step was an update of a (user, item) seen before, whose position
\* is not a restart.
SubsequentCase ==
    /\ last.op = "update"
    /\ last.had_last
    /\ ~(last.ticks < last.prev_last - 5 * TICKS_PER_SECOND)

\* C11: a non-first observation without restart adds current - last to the
\* bucket of its item and hour when that difference lies between 0 and 60 s,
\* and nothing when it lies outside; no observation credits its item more
\* than 60 s.
C11_DeltaWithinBand ==
    /\ SubsequentCase =>
           Credited = IF /\ 0 <= last.ticks - last.prev_last
                         /\ last.ticks - last.prev_last <= 60 * TICKS_PER_SECOND
                      THEN last.ticks - last.prev_last
                      ELSE 0
    /\ last.op = "update" => Credited <= 60 * TICKS_PER_SECOND

\* A forward move within the band is credited in full.
C11_Witness ==
    /\ SubsequentCase
    /\ last.ticks - last.prev_last > 0
    /\ Credited = last.ticks - last.prev_last
\* The last step was an increment that seeded a session.
SeedCase ==
    /\ last.op = "increment"
    /\ last.pre = NoState
    /\ states[last.user] # NoState

\* The last step was the first observation of its (user, item).
FirstObservation == last.op = "update" /\ ~last.had_last

\* C12: the first observation of a (user, item) at position p is credited p
\* when p lies within the guard window (15 s in the buffer) and nothing when
\* it lies beyond: 5 s is credited 5 s, 60 s is credited nothing, and no
\* first observation beyond the window is credited its position.
\* The increment processor has its own guard, of 30 s, on the seconds of the
\* delta that seeds a session.
C12_FirstObservationGuard ==
    /\ FirstObservation =>
           /\ Credited = IF last.ticks <= 15 * TICKS_PER_SECOND THEN last.ticks ELSE 0
           /\ last.ticks = 5 * TICKS_PER_SECOND => Credited = 5 * TICKS_PER_SECOND
           /\ last.ticks = 60 * TICKS_PER_SECOND => Credited = 0
    /\ SeedCase =>
           states[last.user].seconds_accum = IF last.secs <= 30 THEN last.secs ELSE 0

\* A first observation mid-track, at 60 s, credited nothing.
C12_Witness ==
    /\ FirstObservation
    /\ last.ticks = 60 * TICKS_PER_SECOND
    /\ Credited = 0
    /\ last_known_tick[<<last.user, last.item>>] = last.ticks
\* The last step was an update that saw the user on another item than before.
TrackChange ==
    /\ last.op = "update"
    /\ last.old_item # "none"
    /\ last.old_item # last.item

\* What the last update added to the bucket of the item the user was on.
GapCredited ==
    Get(buffer, <<last.user, last.old_item, last.hour>>, 0)
        - Get(last.pre_buffer, <<last.user, last.old_item, last.hour>>, 0)

\* The gap between the last known position of the item left and its end.
GapToEnd ==
    Max(0, TrackRuntime[last.old_item] * TICKS_PER_SECOND
               - last_known_tick[<<last.user, last.old_item>>])

\* What the observation earns its own item by the rules of the first
\* observation, the restart and the delta band.
OwnCredit ==
    IF ~last.had_last
    THEN IF last.ticks <= 15 * TICKS_PER_SECOND THEN last.ticks ELSE 0
    ELSE LET base == IF last.ticks < last.prev_last - 5 * TICKS_PER_SECOND
                     THEN 0
                     ELSE last.prev_last
         IN  IF /\ 0 <= last.ticks - base
                /\ last.ticks - base <= 60 * TICKS_PER_SECOND
             THEN last.ticks - base
             ELSE 0

\* C13: when the now-playing item changes from A to B, the update adds
\* exactly min(max(0, runtime(A) - last known position of A), 30 s) to the
\* bucket of A, and B is credited nothing of that gap.
C13_GapFillOnTrackChange ==
    TrackChange =>
        /\ GapCredited = Min(GapToEnd, 30 * TICKS_PER_SECOND)
        /\ Credited = OwnCredit

\* A gap of more than 30 s, credited 30 s.
C13_Witness ==
    /\ TrackChange
    /\ GapToEnd > 30 * TICKS_PER_SECOND
    /\ GapCredited = 30 * TICKS_PER_SECOND
\* The last step was an increment for a user without a state.
IncOnUntracked == last.op = "increment" /\ last.pre = NoState

\* The user's playlists, not expired, whose first track is the item.
StartingWith(discord_id, item_id) ==
    {p \in 1..Len(Playlists) : /\ Playlists[p].discord_id = discord_id
                               /\ ~Playlists[p].is_expired
                               /\ Playlists[p].items[1] = item_id}

\* The last step turned an unconfirmed state into a confirmed one.
ConfirmingStep ==
    /\ IncOnTracked
    /\ ~last.pre.is_confirmed
    /\ states[last.user] # NoState
    /\ states[last.user].is_confirmed

\* C14: an increment for a user without a state leaves no state and emits
\* nothing when no live playlist of the user starts with the item, leaves a
\* confirmed state at index 0 with a persisted session id when exactly one
\* does, and an unconfirmed state without session id carrying the expected
\* second track when several do; an unconfirmed state is confirmed only by an
\* increment for another item that is this expected second track.
C14_SeedingByCandidates ==
    /\ IncOnUntracked =>
           LET n == Cardinality(StartingWith(last.user, last.item))
               st == states[last.user]
           IN  /\ n = 0 => /\ st = NoState
                           /\ events = <<>>
                           /\ sessions = last.pre_sessions
               /\ n = 1 => /\ st # NoState
                           /\ st.is_confirmed
                           /\ st.current_index = 0
                           /\ st.user_playlist_id \in StartingWith(last.user, last.item)
                           /\ st.session_id \in 1..Len(sessions)
                           /\ sessions[st.session_id].user_playlist_id = st.user_playlist_id
               /\ n > 1 => /\ st # NoState
                           /\ ~st.is_confirmed
                           /\ st.current_index = 0
                           /\ st.session_id = 0
                           /\ st.user_playlist_id \in StartingWith(last.user, last.item)
                           /\ Len(Playlists[st.user_playlist_id].items) >= 2
                           /\ st.second_expected = Playlists[st.user_playlist_id].items[2]
    /\ ConfirmingStep =>
           /\ last.item # last.pre.current_item_id
           /\ last.item = last.pre.second_expected

\* An unconfirmed state confirmed by its expected second track.
C14_Witness ==
    /\ ConfirmingStep
    /\ last.item = last.pre.second_expected
    /\ last.pre.session_id = 0
    /\ states[last.user].session_id \in 1..Len(sessions)

\* An unconfirmed session observed an item that is neither its current item
\* nor its expected second track.
UnconfirmedMiss ==
    /\ IncOnTracked
    /\ ~last.pre.is_confirmed
    /\ last.item # last.pre.current_item_id
    /\ last.item # last.pre.second_expected

\* C15: when an unconfirmed session observes a different item that is not the
\* expected second track, its state is removed and the increment emits no
\* event at all.
C15_UnconfirmedDiscardedSilently ==
    UnconfirmedMiss =>
        /\ states[last.user] = NoState
        /\ events = <<>>

\* An unconfirmed session on playlist <<"a", "b", "c">> with time on its first
\* track is discarded on "c", the second track of the user's other playlist
\* starting with "a".
C15_Witness ==
    /\ UnconfirmedMiss
    /\ last.pre.seconds_accum > 0
    /\ last.pre.second_expected = "b"
    /\ last.item = "c"
    /\ states[last.user] = NoState

\* A confirmed session observed an item that is not in its playlist.
ConfirmedLeftPlaylist ==
    /\ IncOnTracked
    /\ last.pre.is_confirmed
    /\ last.item \notin _get_all_playlist_items(last.pre.user_playlist_id)

\* C16: when a confirmed session observes an item outside its playlist,
\* exactly one event is emitted, a SwitchAway carrying the index, the item and
\* the accumulated seconds of the track being left, and the state is removed
\* by the same increment.
C16_SwitchAwayOnLeavingPlaylist ==
    ConfirmedLeftPlaylist =>
        /\ Len(events) = 1
        /\ events[1].type = "SwitchAway"
        /\ events[1].user = last.user
        /\ events[1].user_playlist_id = last.pre.user_playlist_id
        /\ events[1].from_index = last.pre.current_index
        /\ events[1].from_item_id = last.pre.current_item_id
        /\ events[1].seconds_on_from = last.pre.seconds_accum
        /\ events[1].switched_to_item_id = last.item
        /\ states[last.user] = NoState

\* A confirmed session past its first track, with time on the current track,
\* leaves its playlist.
C16_Witness ==
    /\ ConfirmedLeftPlaylist
    /\ last.pre.current_index > 0
    /\ last.pre.seconds_accum > 0
    /\ CountType(events, "SwitchAway") = 1
    /\ states[last.user] = NoState

\* The Abandoned events of the last tick.
AbandonedEvents == {i \in 1..Len(events) : events[i].type = "Abandoned"}

\* C18: an Abandoned event carries the playlist, the track index, the item and
\* the accumulated seconds (and the session id) that the user's live state had
\* in the tick that detected the abandonment.
C18_AbandonedCarriesLiveState ==
    last.op = "absent_tick" =>
        \A i \in AbandonedEvents :
            /\ events[i].user = last.user
            /\ last.pre # NoState
            /\ events[i].user_playlist_id = last.pre.user_playlist_id
            /\ events[i].last_index = last.pre.current_index
            /\ events[i].last_item_id = last.pre.current_item_id
            /\ events[i].seconds_on_last = last.pre.seconds_accum
            /\ events[i].session_id = last.pre.session_id

\* A session whose state changed after its first snapshot (it is past its
\* first track and has time on the current one) is abandoned with an event.
C18_Witness ==
    /\ AbandonmentTick
    /\ AbandonedEvents # {}
    /\ last.pre.current_index > 0
    /\ last.pre.seconds_accum > 0

-----------------------------------------------------------------------------
(* Properties of the polling tick (SpecTick) *)

\* The place of a statement in the claimed order of a tick.
StepRank == [update |-> 1, consume |-> 2, increment |-> 3, snapshot |-> 4,
             abandon |-> 5]

\* The statements the running tick has executed keep the claimed order, and
\* only the buffer update is repeated.
DoneInOrder ==
    \A i, j \in 1..Len(pipeline.done) :
        i < j => /\ StepRank[pipeline.done[i]] <= StepRank[pipeline.done[j]]
                 /\ pipeline.done[i] = pipeline.done[j] => pipeline.done[i] = "update"

\* C17: in a tick the buffer updates of all streaming sessions come first,
\* then the consumption of the deltas, the processing of the increments, the
\* refresh of the snapshots and the abandonment check; a tick starts only
\* when the previous one has run its abandonment check; and the abandonment
\* check reads the state map as the tick's increment processing left it.
C17_TickPipelineOrder ==
    /\ DoneInOrder
    /\ last.op = "consume_deltas" => last.pending = <<>>
    /\ last.op = "refresh_snapshots" =>
           /\ last.observed = pipeline.after_increments
           /\ pipeline.buffer_deltas # <<>> =>
                  \E i \in 1..Len(pipeline.done) : pipeline.done[i] = "increment"
    /\ last.op = "abandon_check" =>
           /\ last.observed = pipeline.after_increments
           /\ \E i \in 1..Len(pipeline.done) : pipeline.done[i] = "consume"
           /\ \E i \in 1..Len(pipeline.done) : pipeline.done[i] = "snapshot"
           /\ pipeline.buffer_deltas # <<>> =>
                  \E i \in 1..Len(pipeline.done) : pipeline.done[i] = "increment"
    /\ last.op = "get_sessions" =>
           \/ last.prev_done = <<>>
           \/ last.prev_done[Len(last.prev_done)] = "abandon"

\* A tick with two streaming sessions ran all five steps, its increments
\* changed the state map, and the abandonment check has just run.
C17_Witness ==
    /\ last.op = "abandon_check"
    /\ pipeline.done = <<"update", "update", "consume", "increment", "snapshot",
                         "abandon">>
    /\ Len(pipeline.buffer_deltas) = 2
    /\ \E u \in Users : last.observed[u] # NoState
    /\ hist.steps > 1

-----------------------------------------------------------------------------
(* Properties of the increment processing under faults (SpecFault) *)

\* The processing of one delta of the last batch raised.
IncrementFailed == last.op = "batch" /\ last.raised_at > 0

\* The user whose increment raised.
FailedUser == last.buffer_deltas[last.raised_at][1]

\* C19: what the processing of one user's increment raises does not leave
\* process_buffer_deltas, and the deltas of the other users of the same batch
\* are processed as they are without the failure.
C19_FailureLeavesOthersProcessed ==
    IncrementFailed =>
        \A i \in 1..Len(last.buffer_deltas) :
            LET u == last.buffer_deltas[i][1]
            IN  u # FailedUser => states[u] = last.others_processed[u]

\* C20: when the processing of a user's increment raises, the user's state
\* is as it was before the increment: no state if there was none, otherwise
\* the same secondsAccum, isConfirmed, currentIndex, currentItemId and
\* sessionId.
C20_FailureLeavesStateIntact ==
    IncrementFailed =>
        LET before == last.pre_states[FailedUser]
            after == states[FailedUser]
        IN  IF before = NoState
            THEN after = NoState
            ELSE /\ after # NoState
                 /\ after.seconds_accum = before.seconds_accum
                 /\ after.is_confirmed = before.is_confirmed
                 /\ after.current_index = before.current_index
                 /\ after.current_item_id = before.current_item_id
                 /\ after.session_id = before.session_id

\* The increment that raised was finalizing the session: it was for the
\* current item of a confirmed session, and the call that raised records the
\* completion of the last track or marks the session complete.
FinalizationFailed ==
    /\ IncrementFailed
    /\ last.fault \in {"record_file_completion", "mark_session_complete"}
    /\ last.pre_states[FailedUser] # NoState
    /\ last.pre_states[FailedUser].current_item_id =
           last.buffer_deltas[last.raised_at][2]

\* C21: when a persistence call raises while a session is being finalized,
\* the user's state is removed from the state map all the same.
C21_StateClearedWhenFinalizationFails ==
    FinalizationFailed => states[FailedUser] = NoState

-----------------------------------------------------------------------------
(* Properties of the cog's tasks (SpecCog) *)

\* C22: once the cog is unloaded no deferred completion is pending (each was
\* cancelled), and no Complete event is emitted.
C22_UnloadCancelsDeferredCompletions ==
    pipeline.pc = "unloaded" =>
        /\ background_tasks = <<>>
        /\ CountType(events, "Complete") = 0

\* C23: what clear() removes from the buckets at the end of a flush is what
\* that flush has written: no tick is dropped unflushed; and a flush does not
\* clear the buckets between a tick's buffer updates and the processing of
\* the deltas they surface.
C23_FlushClearsWhatItWrote ==
    last.op = "flush_clear" =>
        /\ last.cleared = last.written
        /\ pipeline.pc \notin {"update", "consume", "increment"}

-----------------------------------------------------------------------------
(* Properties of the session state over a session (SpecInc) *)

\* The rows of playlist_file_events that credit the full runtime of the
\* track at order_index within the session playlist_session_id.
FullRuntimeCredits(playlist_session_id, order_index) ==
    {i \in 1..Len(file_events) :
        /\ file_events[i].playlist_session_id = playlist_session_id
        /\ file_events[i].order_index = order_index
        /\ file_events[i].listen_duration_seconds =
               get_track_runtime(file_events[i].item_id)}

\* C24: within one session the full runtime of a track (order index) is
\* credited at most once.
C24_FullRuntimeCreditedOnce ==
    \A i \in 1..Len(file_events) :
        Cardinality(FullRuntimeCredits(file_events[i].playlist_session_id,
                                       file_events[i].order_index)) <= 1

\* The last operation was an increment that left the user's state in place.
TrackedStep == IncOnTracked /\ states[last.user] # NoState

IndexChanged == states[last.user].current_index # last.pre.current_index

\* C25: a session id, once assigned, is kept by every later step on that
\* state.
C25_SessionIdNeverReassigned ==
    (TrackedStep /\ last.pre.session_id # 0) =>
        states[last.user].session_id = last.pre.session_id

\* A state with a session id moves to another track and keeps the id.
C25_Witness ==
    /\ TrackedStep
    /\ last.pre.session_id # 0
    /\ IndexChanged
    /\ states[last.user].session_id = last.pre.session_id

\* C26 as stated: secondsAccum is 0 after exactly the steps that change
\* currentIndex, and never decreases in a step that leaves it unchanged.
C26_AccumZeroOnIndexChange ==
    TrackedStep =>
        /\ IndexChanged => states[last.user].seconds_accum = 0
        /\ ~IndexChanged =>
               /\ states[last.user].seconds_accum >= last.pre.seconds_accum
               /\ last.pre.seconds_accum > 0 => states[last.user].seconds_accum > 0

\* C26 amended: secondsAccum restarts in exactly the steps that change
\* currentIndex: from 0 on a sequential move, from the time credited to the
\* new track on a jump within the playlist (the delta when it is at most
\* SEED_TIME_GUARD_SECONDS, 0 otherwise); in a step that leaves currentIndex
\* unchanged it grows by the delta and never decreases.
C26_AccumRestartsOnIndexChange ==
    TrackedStep =>
        /\ IndexChanged =>
               states[last.user].seconds_accum =
                   IF SequentialCase THEN 0
                   ELSE IF last.secs <= SEED_TIME_GUARD_SECONDS THEN last.secs
                   ELSE 0
        /\ ~IndexChanged =>
               /\ states[last.user].seconds_accum = last.pre.seconds_accum + last.secs
               /\ states[last.user].seconds_accum >= last.pre.seconds_accum

\* A jump within the playlist whose delta is credited to the new track.
C26_Witness ==
    /\ TrackedStep
    /\ NonSequentialCase
    /\ IndexChanged
    /\ last.pre.seconds_accum > 0
    /\ states[last.user].seconds_accum = last.secs
    /\ last.secs > 0

\* C27: a confirmed state stays confirmed in every step.
C27_ConfirmedIsMonotonic ==
    (TrackedStep /\ last.pre.is_confirmed) => states[last.user].is_confirmed

\* A confirmed state moves to the next track and is still confirmed.
C27_Witness ==
    /\ TrackedStep
    /\ SequentialCase
    /\ last.pre.is_confirmed
    /\ states[last.user].is_confirmed

-----------------------------------------------------------------------------
(* Properties of the completion of the last track (SpecInc) *)

\* The increment brings the last track of a confirmed session to its
\* completion threshold.
CompletingStep == FinalTrackCase /\ ReachedNinetyPercent

AccumAtCompletion == last.pre.seconds_accum + last.secs

\* The pending deferred completions of a session.
PendingFor(session_id) ==
    {i \in 1..Len(background_tasks) : background_tasks[i].state.session_id = session_id}

\* C29: a completion below the track's runtime emits nothing in the step,
\* removes the state and leaves one pending task whose delay is
\* min(runtime - secondsAccum, 300 s); a completion at or above the runtime
\* emits Complete in the step and leaves no task; a task fires when its delay
\* has run out, emits the one Complete and is no longer pending.
C29_DeferredCompletion ==
    /\ (CompletingStep /\ AccumAtCompletion < TrackRuntime[last.item]) =>
          /\ CountType(events, "Complete") = 0
          /\ states[last.user] = NoState
          /\ Len(background_tasks) = last.pre_tasks + 1
          /\ Cardinality(PendingFor(last.pre.session_id)) = 1
          /\ \A i \in PendingFor(last.pre.session_id) :
                /\ background_tasks[i].discord_id = last.user
                /\ background_tasks[i].delay =
                       Min(TrackRuntime[last.item] - AccumAtCompletion, 300)
                /\ background_tasks[i].delay > 0
    /\ (CompletingStep /\ AccumAtCompletion >= TrackRuntime[last.item]) =>
          /\ CountType(events, "Complete") = 1
          /\ states[last.user] = NoState
          /\ Len(background_tasks) = last.pre_tasks
          /\ PendingFor(last.pre.session_id) = {}
    /\ last.op = "delayed_completion" =>
          /\ last.task.delay = 0
          /\ Len(events) = 1
          /\ events[1].type = "Complete"
          /\ events[1].session_id = last.task.state.session_id
          /\ PendingFor(last.task.state.session_id) = {}

\* A completion more than 300 s short of the runtime: the delay is capped.
C29_Witness ==
    /\ CompletingStep
    /\ TrackRuntime[last.item] - AccumAtCompletion > 300
    /\ Len(background_tasks) = last.pre_tasks + 1
    /\ background_tasks[Len(background_tasks)].delay = 300
    /\ states[last.user] = NoState

-----------------------------------------------------------------------------
(* Properties of the time recorded on a sequential move (SpecInc) *)

\* The time the move is expected to record for the track being left.
ClaimedTimeOnFrom ==
    IF ClaimedAccepted
    THEN TrackRuntime[last.pre.current_item_id]
    ELSE Max(last.pre.seconds_accum, ElapsedOnTrack)

\* C30: a sequential move records, for the track being left, its full
\* runtime when the move is a completion and the larger of secondsAccum and
\* the wall-clock time on the track when it is a skip; a skip records less
\* than the advance threshold; the event carries the recorded amount as
\* seconds_on_from.
C30_TimeRecordedOnSequentialMove ==
    SequentialCase =>
        /\ Len(file_events) = last.pre_file_events + 1
        /\ file_events[Len(file_events)].item_id = last.pre.current_item_id
        /\ file_events[Len(file_events)].order_index = last.pre.current_index
        /\ file_events[Len(file_events)].playlist_session_id =
               states[last.user].session_id
        /\ file_events[Len(file_events)].listen_duration_seconds = ClaimedTimeOnFrom
        /\ ~ClaimedAccepted => 100 * ClaimedTimeOnFrom < ClaimedAdvanceThreshold100
        /\ Len(events) = 1
        /\ events[1].seconds_on_from = ClaimedTimeOnFrom

\* A skip whose wall-clock time on the track exceeds the accumulated seconds.
C30_Witness ==
    /\ SequentialCase
    /\ ~ClaimedAccepted
    /\ ElapsedOnTrack > last.pre.seconds_accum
    /\ TypesOf(events) = <<"Jump">>
    /\ events[1].seconds_on_from = ElapsedOnTrack
    /\ file_events[Len(file_events)].listen_duration_seconds = ElapsedOnTrack

-----------------------------------------------------------------------------
(* Properties of the reattachment (SpecBoot) *)

\* The last step was the start of a run that made the reattachment pass.
ReattachPass == last.op = "get_sessions" /\ last.reattach

\* The pass has given the user a state.
Reattached(u) == last.pre_states[u] = NoState /\ states[u] # NoState

\* The sessions of the pass that play the track the row points at.
MatchingSessions(u, row) ==
    {i \in 1..Len(last.streaming) :
        /\ last.streaming[i].user = u
        /\ row.current_index + 1 \in 1..Len(Playlists[row.user_playlist_id].items)
        /\ last.streaming[i].item =
               Playlists[row.user_playlist_id].items[row.current_index + 1]}

\* The state is the one the pass builds from the row and one of its
\* matching sessions.
ReattachedFrom(u, sid) ==
    LET row == last.pre_sessions[sid]
    IN  /\ row.discord_id = u
        /\ ~row.is_complete
        /\ row.last_seen > 0
        /\ MatchingSessions(u, row) # {}
        /\ states[u].is_confirmed
        /\ states[u].session_id = sid
        /\ states[u].user_playlist_id = row.user_playlist_id
        /\ states[u].current_index = row.current_index
        /\ states[u].current_item_id =
               Playlists[row.user_playlist_id].items[row.current_index + 1]
        /\ states[u].seconds_accum * TICKS_PER_SECOND =
               last.streaming[MinOf(MatchingSessions(u, row))].ticks

\* C28: the reattachment pass gives a user a state only when the user had
\* none and a session plays the track at the persisted index of a recent
\* incomplete row of the user; the state is confirmed, at that index; the
\* pass emits nothing and leaves every existing state as it was, the one a
\* former session of the same pass has created included.
C28_ReattachOnlyOnMatchingRow ==
    ReattachPass =>
        /\ events = <<>>
        /\ sessions = last.pre_sessions
        /\ \A u \in Users :
              /\ last.pre_states[u] # NoState => states[u] = last.pre_states[u]
              /\ Reattached(u) =>
                     \E sid \in 1..Len(last.pre_sessions) : ReattachedFrom(u, sid)

\* After a restart a session is reattached on the second track of its
\* playlist.
C28_Witness ==
    /\ ReattachPass
    /\ \E u \in Users : /\ Reattached(u)
                        /\ states[u].current_index = 1
                        /\ states[u].is_confirmed

-----------------------------------------------------------------------------
(* Properties of the abandonment (SpecAbandon) *)

\* A confirmed session with a session id is abandoned in the last tick.
ConfirmedAbandonment ==
    /\ AbandonmentTick
    /\ last.pre.is_confirmed
    /\ last.pre.session_id # 0

TrackedAbsentTick ==
    /\ last.op = "absent_tick"
    /\ last.pre # NoState

\* C32: within one continuous absence of a tracked user the absence count
\* grows by exactly one per tick (the count reached equals the number of the
\* absent tick), Paused is emitted at tick 20 only, Waiting at tick 60 only
\* and after Paused, and the abandonment happens at tick 240 only and after
\* Waiting.
C32_StagedAbsence ==
    TrackedAbsentTick =>
        /\ last.pre_count + 1 = last.run
        /\ CountType(events, "Paused") = IF last.run = pause_threshold THEN 1 ELSE 0
        /\ CountType(events, "Waiting") = IF last.run = waiting_threshold THEN 1 ELSE 0
        /\ CountType(events, "Waiting") > 0 => last.pre_paused
        /\ AbandonmentTick <=> last.run = abandonment_threshold
        /\ AbandonmentTick => last.pre_waiting

-----------------------------------------------------------------------------
(* Properties of the event emission (SpecSink) *)

\* The last step emitted, or would have emitted with a working sink, while
\* the sink was missing or the sink or a lookup raised.
EmissionFailed ==
    /\ last.op \in {"streaming_tick", "absent_tick", "delayed_completion"}
    /\ last.dispatch # "working"

\* C33: with no sink, or with a sink or an enrichment lookup that raises, no
\* exception leaves the emission and the tick leaves the session states, the
\* session tables, the pending tasks and the absence tracking exactly as with
\* a working sink.
C33_EmissionNeverBlocks ==
    EmissionFailed =>
        /\ ~last.raised
        /\ TrackerState(TrackerWorld) = last.working

\* A switch-away whose emission failed: the state is removed all the same.
C33_Witness ==
    /\ EmissionFailed
    /\ last.op = "streaming_tick"
    /\ last.dispatch = "sink_raises"
    /\ CountType(last.working_events, "SwitchAway") = 1
    /\ last.pre # NoState
    /\ states[last.user] = NoState
    /\ events = <<>>

-----------------------------------------------------------------------------
(* Properties of the reattachment guard (SpecReattach) *)

\* C34: in every boot the reattachment pass has been started exactly once as
\* soon as _reattach_once_with_sessions has been called, however many
\* invocations followed or overlapped, an empty first pass included; and at
\* most one invocation is inside the pass.
C34_ReattachOncePerBoot ==
    /\ hist.calls > 0 => hist.passes = 1
    /\ Cardinality({p \in Invocations : pipeline.reattach_calls[p].pc = "pass"}) <= 1
    /\ \A p \in Invocations : pipeline.reattach_calls[p].pc # "waiting"

\* An invocation called with sessions while another is inside the pass
\* returns at the first look at the flag.
C34_Witness ==
    /\ last.op = "reattach_call"
    /\ last.locked
    /\ last.jf_sessions # <<>>
    /\ hist.calls >= 2
    /\ hist.passes = 1
    /\ pipeline.reattach_calls[last.invocation].pc = "idle"

-----------------------------------------------------------------------------
(* Properties of the tick buffer after a discarded observation (SpecBuf) *)

\* The observation of (user, item) before the last update was discarded for a
\* delta outside the band: a forward jump of more than 60 s, or a restart to a
\* position above 60 s; the last known position is not the position seen.
DiscardedBefore ==
    /\ last.op = "update"
    /\ last.had_last
    /\ last.prev_seen # last.prev_last
    /\ \/ last.prev_seen - last.prev_last > MAX_ALLOWED_DELTA
       \/ /\ last.prev_seen < last.prev_last - MAX_JUMP_BACK
          /\ last.prev_seen > MAX_ALLOWED_DELTA

\* The last update advances by at most 60 s on the position seen before it.
NormalAdvance ==
    /\ last.ticks > last.prev_seen
    /\ last.ticks - last.prev_seen <= MAX_ALLOWED_DELTA

\* C35: an observation that advances normally on a discarded one is credited
\* again.
C35_CreditedAfterDiscard ==
    (DiscardedBefore /\ NormalAdvance) => Credited > 0

-----------------------------------------------------------------------------
(* Properties of the events after the end of a session (SpecAbandon) *)

\* Some event of evs is a Paused, Waiting, Resumed, Advance or Jump of a user
\* whose session had ended (ended, brought forward over evs) with no Start
\* since.
RECURSIVE EmittedAfterEnd(_, _)
EmittedAfterEnd(evs, ended) ==
    /\ evs # <<>>
    /\ \/ /\ Head(evs).type \in {"Paused", "Waiting", "Resumed", "Advance", "Jump"}
          /\ Head(evs).user \in ended
       \/ EmittedAfterEnd(Tail(evs), EndedAfter(<<Head(evs)>>, ended))

\* C36: once SwitchAway, Abandoned or Complete has been emitted for a user, no
\* Paused, Waiting, Resumed, Advance or Jump is emitted for that user before a
\* new Start.
C36_SilentAfterEnd ==
    last.op \in {"streaming_tick", "absent_tick", "delayed_completion"} =>
        ~EmittedAfterEnd(events, last.pre_ended)

-----------------------------------------------------------------------------
(* Properties of the order of Complete and Start (SpecInc) *)

\* The deferred completions of the user of the last increment that were
\* pending before it and whose sleep has not run out after it.
StillWaiting ==
    {j \in 1..last.pre_tasks :
        /\ background_tasks[j].discord_id = last.user
        /\ background_tasks[j].delay > 0}

\* C37: no Start is emitted for a user while the Complete event of an earlier
\* session of that user is still waiting to be emitted.
C37_CompleteBeforeNextStart ==
    (last.op = "increment" /\ CountType(events, "Start") > 0) => StillWaiting = {}

-----------------------------------------------------------------------------
(* Properties of the session states under faults (SpecFault) *)

\* C38: an unconfirmed session state is on index 0 and has no session id; a
\* confirmed session state has a session id.
C38_ConfirmedHasSession ==
    \A u \in Users :
        states[u] # NoState =>
            IF states[u].is_confirmed
            THEN states[u].session_id # 0
            ELSE states[u].current_index = 0 /\ states[u].session_id = 0

-----------------------------------------------------------------------------
(* Properties of the rows recorded when a track is left (SpecInc) *)

\* The last increment took a confirmed session with time accumulated off its
\* track: to another track of the playlist, or out of the playlist.
LeftTrackWithTime ==
    /\ IncOnTracked
    /\ last.pre.is_confirmed
    /\ last.pre.seconds_accum > 0
    /\ last.item # last.pre.current_item_id

\* The rows the last increment recorded for the track it left.
RowsForTrackLeft ==
    {i \in (last.pre_file_events + 1)..Len(file_events) :
        /\ file_events[i].playlist_session_id = last.pre.session_id
        /\ file_events[i].item_id = last.pre.current_item_id
        /\ file_events[i].order_index = last.pre.current_index}

\* C39: when a confirmed session leaves a track with secondsAccum > 0, by
\* advance, skip, jump within the playlist or switch-away, a row of listening
\* time is recorded for the track left.
C39_RowForTrackLeft == LeftTrackWithTime => RowsForTrackLeft # {}

-----------------------------------------------------------------------------
(* Properties of the credit of one play-through (SpecBuf) *)

\* C40: over one uninterrupted play-through of a track (positions that never
\* decrease, never exceed the runtime and advance by at most 60 s from one
\* poll to the next, the track left at most once and not seen again) the
\* ticks credited to the (user, item), first-observation credit, deltas and
\* gap fill together, never exceed the runtime of the track.
C40_CreditWithinRuntime ==
    \A key \in DOMAIN hist.play :
        hist.play[key].well =>
            hist.play[key].credited <= _get_track_runtime_ticks(key[2])

\* A play-through credited at its first observation, by a delta and by the
\* gap fill when the track is left.
C40_Witness ==
    /\ last.op = "update"
    /\ last.old_item = "b"
    /\ last.item # "b"
    /\ hist.play[<<last.user, "b">>].well
    /\ hist.play[<<last.user, "b">>].left
    /\ hist.play[<<last.user, "b">>].credited = 90 * TICKS_PER_SECOND

====
